---- MODULE Spec2Model ----
(***************************************************************************)
(* Model of the Dynamics API backend: the paginated-fetch helpers, the      *)
(* path-or-ID item resolvers and the item actions built on them, the site  *)
(* resolution, the uploads and the session memory (app/actions/*.py), the  *)
(* /dynamics endpoint (app/api/routes/dynamics_actions.py) and the         *)
(* authenticated HTTP client (app/shared/helpers/http_client.py).          *)
(*                                                                         *)
(* Python values are encoded as follows: None is the empty tuple <<>> and  *)
(* a present value x is the one-element tuple <<x>>; a string that the     *)
(* code inspects character by character is a sequence of one-character     *)
(* strings; URLs, which the code only compares and tests for truth, are    *)
(* TLA+ strings ("" is the empty, falsy string).                           *)
(***************************************************************************)
EXTENDS Integers, Sequences, FiniteSets, TLC

None == <<>>
Some(x) == <<x>>
Val(o) == o[1]

\* ---------------------------------------------------------------------------
\* Bounds of the model
\* ---------------------------------------------------------------------------
MaxItems == 3
MaxBatch == 2
MaxPageCap == 2
MaxCore == 2
\* the model follows a call for at most this many loop iterations beyond its
\* page cap
MaxOverrun == 1
\* uploaded files have up to this many MiB (plus one byte)
MaxFileMiB == 11
\* the memory list holds up to this many items when the callers arrive
MaxListItems == 2

\* ---------------------------------------------------------------------------
\* Program constants
\* ---------------------------------------------------------------------------
DefaultMaxPages == 20
OneDriveDefaultMaxPages == 30
SearchDefaultMaxPages == 10
ReportsDefaultMaxPages == 5
DefaultErrorStatus == 500
IdLengthThreshold == 40
PathLengthLimit == 70
NotFoundStatus == 404

\* ---------------------------------------------------------------------------
\* The paginated fetch helpers
\* ---------------------------------------------------------------------------
VARIABLES
    helper,             \* which helper is being called
    max_items_total,    \* None (unbounded) or Some(n)
    settings_MAX_PAGING_PAGES, \* None (attribute not defined) or Some(p)
    all_items,          \* the accumulator
    current_url,        \* None or Some(url)
    page_count,
    pc,                 \* position of the call: "idle", "loop", "awaiting", "done"
    result,             \* None until the call returns
    request,            \* None or Some(the request most recently sent upstream)
    requests_sent,      \* number of GET requests that reached the upstream
    last_response,      \* None or Some(body of the most recent 2xx response)
    last_failure,       \* None or Some(the failure the upstream answered with)
    cursor_seen,        \* whether some response carried an '@odata.nextLink'
    served              \* number of items the upstream has put into batches

pagedVars == <<helper, max_items_total, settings_MAX_PAGING_PAGES, all_items,
               current_url, page_count, pc, result, request, requests_sent,
               last_response, last_failure, cursor_seen, served>>

\* ---------------------------------------------------------------------------
\* The path-or-ID item resolvers
\* ---------------------------------------------------------------------------
VARIABLES
    service,            \* "sharepoint" or "onedrive": whose resolver is called
    item_path_or_id,    \* the argument of the resolver
    rpc,                \* position of the call: "idle", "start", "awaiting", "done"
    classified,         \* "none", or what is_likely_id decided: "id" or "path"
    resolved,           \* None until the call returns
    lookup,             \* None or Some(endpoint of the metadata GET of this call)
    round,              \* 1: the caller's string; 2: the ID of round 1 given back
    path_id             \* None or Some(the ID the lookup of round 1 returned)

resolverVars == <<service, item_path_or_id, rpc, classified, resolved, lookup,
                  round, path_id>>

\* ---------------------------------------------------------------------------
\* The /dynamics endpoint
\* ---------------------------------------------------------------------------
VARIABLES
    action_name,        \* action_request.action
    params_req,         \* action_request.params: the entries the endpoint reads
    credential,         \* "unchecked", "ok", or the exception of the credential check
    dpc,                \* position of the request: "idle", "received", "lookup",
                        \* "running", "responded"
    invoked,            \* the handler functions called for this request, in order
    handler_result,     \* None or Some(what the handler returned or raised)
    response,           \* None or Some(the response returned to the caller)
    responses_sent      \* number of responses returned for this request

dynVars == <<action_name, params_req, credential, dpc, invoked, handler_result,
             response, responses_sent>>

\* ---------------------------------------------------------------------------
\* AuthenticatedHttpClient.request
\* ---------------------------------------------------------------------------
VARIABLES
    method,             \* "GET", "POST", "PATCH", ...
    scope,              \* the scope argument: a list of scope strings
    kwargs,             \* the keyword arguments of the call
    cpc,                \* position of the call: "idle", "start", "token", "awaiting", "done"
    access_token,       \* None or Some(what _get_access_token returned)
    sent,               \* None or Some(the HTTP request sent upstream)
    upstream_requests,  \* number of HTTP requests sent upstream by this call
    outcome             \* None, or Some(the response returned or the exception raised)

clientVars == <<method, scope, kwargs, cpc, access_token, sent, upstream_requests,
                outcome>>

\* ---------------------------------------------------------------------------
\* The item actions that resolve a path-or-ID and then change the item
\* ---------------------------------------------------------------------------
VARIABLES
    item_action,        \* the handler that is called
    ipc,                \* position of the call: "idle", "resolving", "awaiting", "done"
    item_result,        \* None until the handler returns
    item_requests       \* the DELETE, PATCH and POST requests sent upstream, in order

itemVars == <<item_action, ipc, item_result, item_requests>>

\* ---------------------------------------------------------------------------
\* The SharePoint actions that resolve their site first
\* ---------------------------------------------------------------------------
VARIABLES
    site_action,        \* the handler that is called
    site_input,         \* params.get("site_id") or params.get("site_identifier")
    SHAREPOINT_DEFAULT_SITE_ID, \* the setting: None, or Some(kind of string)
    spc,                \* position of the call: "idle", "start", "hostname", "lookup",
                        \* "fallback", "resolved", "awaiting", "done"
    lookup_path,        \* None or Some(what follows /sites/ in the lookup URL)
    target_site_id,     \* None or Some(the site _obtener_site_id_sp returned)
    site_lookups,       \* number of GET requests sent to resolve the site
    site_requests,      \* the requests of the handler itself, in order
    site_result         \* None until the handler returns

siteVars == <<site_action, site_input, SHAREPOINT_DEFAULT_SITE_ID, spc, lookup_path,
              target_site_id, site_lookups, site_requests, site_result>>

\* ---------------------------------------------------------------------------
\* upload_document (SharePoint) and upload_file (OneDrive)
\* ---------------------------------------------------------------------------
VARIABLES
    upload_service,     \* "sharepoint" or "onedrive"
    file_size_bytes,    \* len(content_bytes)
    upc,                \* position of the call: "idle", "start", "awaiting", "done"
    upload_requests,    \* the requests sent upstream, in order
    upstream_failed,    \* whether the credential or the upstream failed a request
    upload_result       \* None until the handler returns

uploadVars == <<upload_service, file_size_bytes, upc, upload_requests, upstream_failed,
                upload_result>>

\* ---------------------------------------------------------------------------
\* The session memory: memory_save, memory_get, memory_delete
\* ---------------------------------------------------------------------------
VARIABLES
    memory_list,        \* the items of the memory list upstream, in the order the
                        \* upstream returns them for $orderby=fields/Timestamp desc
    mem_op,             \* per caller: "none" or the handler it calls
    mem_params,         \* per caller: session_id, clave, valor
    mpc,                \* per caller: "idle", "start", "found", "absent",
                        \* "deleting", "done"
    mem_items,          \* per caller: the items its listing returned
    deleted_count,      \* per caller: memory_delete's counter
    errors_on_delete,   \* per caller: memory_delete's list of failures
    delete_attempts,    \* per caller: the IDs it sent a DELETE for, in order
    env_failed,         \* per caller: the credential or the upstream failed a request
    saved_before,       \* per caller: a memory_save for the same session_id and
                        \* clave had returned when this call began
    mem_result          \* per caller: None until the handler returns

memoryVars == <<memory_list, mem_op, mem_params, mpc, mem_items, deleted_count,
                errors_on_delete, delete_attempts, env_failed, saved_before,
                mem_result>>

\* the variables of the SharePoint and OneDrive handlers
actionVars == <<itemVars, siteVars, uploadVars, memoryVars>>
notItemVars == <<siteVars, uploadVars, memoryVars>>
notSiteVars == <<itemVars, uploadVars, memoryVars>>
notUploadVars == <<itemVars, siteVars, memoryVars>>
notMemoryVars == <<itemVars, siteVars, uploadVars>>

vars == <<pagedVars, resolverVars, dynVars, clientVars, actionVars>>

Helpers == {"_sp_paged_request", "_onedrive_paged_request", "_email_paged_request",
            "_calendar_paged_request", "_teams_paged_request", "list_task_lists",
            "list_tasks", "search_items"}

\* helpers whose max_items_total is Optional[int]; the callers of the others
\* always pass int(params.get('max_items_total', 100))
OptionalCapHelpers == {"_sp_paged_request", "_email_paged_request", "_calendar_paged_request"}

\* helpers that return data = {"value": all_items, "@odata.count": len(all_items)};
\* the others return data = all_items
ODataEnvelopeHelpers == {"_sp_paged_request", "_email_paged_request",
                         "_calendar_paged_request", "_teams_paged_request"}

url_base == "base"
query_api_params_initial == Some("initial")

\* the cursors an upstream response may carry in '@odata.nextLink'
NextLinks == {None, Some(""), Some(url_base), Some("next1")}

\* Python truth of an Optional[str]
Truthy(u) == IF u = None THEN FALSE ELSE Val(u) # ""

\* getattr(settings, 'MAX_PAGING_PAGES', <default>)
max_pages_to_fetch(h, setting) ==
    IF setting # None THEN Val(setting)
    ELSE IF h = "_onedrive_paged_request" THEN OneDriveDefaultMaxPages
    ELSE IF h = "search_items" THEN SearchDefaultMaxPages
    ELSE DefaultMaxPages

\* variants of the loop condition without the page cap / without the item cap
WhileCond_no_page_cap(h, url, cap, items, pages, setting) ==
    /\ Truthy(url)
    /\ (IF cap = None THEN TRUE ELSE Len(items) < Val(cap))

WhileCond_no_item_cap(h, url, cap, items, pages, setting) ==
    /\ Truthy(url)
    /\ pages < max_pages_to_fetch(h, setting)

\* variant that still sends a request when the accumulator equals the cap
WhileCond_cap_inclusive(h, url, cap, items, pages, setting) ==
    /\ Truthy(url)
    /\ (IF cap = None THEN TRUE ELSE Len(items) <= Val(cap))
    /\ pages < max_pages_to_fetch(h, setting)

\* the condition of the while loop
WhileCond(h, url, cap, items, pages, setting) ==
    /\ Truthy(url)
    /\ IF h \in OptionalCapHelpers
         THEN (IF cap = None THEN TRUE ELSE Len(items) < Val(cap))
         ELSE Len(items) < Val(cap)
    /\ pages < max_pages_to_fetch(h, setting)

\* variant that tests only the URL, not the page number
current_params_url_only(h, pages, url) ==
    IF url = Some(url_base) THEN query_api_params_initial ELSE None

\* current_params = query_api_params_initial if is_first_call and current_url == url_base else None
current_params(h, pages, url) ==
    IF h \in {"list_task_lists", "list_tasks"}
      THEN (IF pages = 1 THEN query_api_params_initial ELSE None)
      ELSE (IF pages = 1 /\ url = Some(url_base) THEN query_api_params_initial ELSE None)

\* the 'value' field of a response body: a JSON list, any other JSON value
\* (null, object, string, number), or no such field at all
JsonList(s) == [t |-> "list", v |-> s]
JsonOther == [t |-> "other", v |-> <<>>]
JsonAbsent == [t |-> "absent", v |-> <<>>]

\* response_data.get('value', [])
get_value(body) == IF body.value.t = "absent" THEN JsonList(<<>>) ELSE body.value

\* variant that accepts every JSON value as a list
isinstance_list_any(j) == TRUE

\* isinstance(page_items, list)
isinstance_list(j) == j.t = "list"

\* variant that puts each batch in front of the accumulator
append_page_in_front(items, page_items, cap) == page_items \o items

\* variant that extends the accumulator with the whole batch
append_page_whole_batch(items, page_items, cap) == items \o page_items

\* for item in page_items: append while the cap allows, else break
RECURSIVE append_page(_, _, _)
append_page(items, page_items, cap) ==
    IF page_items = <<>> THEN items
    ELSE IF (IF cap = None THEN TRUE ELSE Len(items) < Val(cap))
           THEN append_page(Append(items, Head(page_items)), Tail(page_items), cap)
           ELSE items

\* the break test after current_url = response_data.get('@odata.nextLink')
BreakAfterPage(url, cap, items) ==
    IF ~Truthy(url) THEN TRUE
    ELSE IF cap = None THEN FALSE
    ELSE Len(items) >= Val(cap)

\* variants of the envelope that report other counts
SuccessResult_counts_pages(h, items, pages) ==
    [status |-> "success",
     value |-> items,
     odata_count |-> IF h \in ODataEnvelopeHelpers THEN Some(Len(items)) ELSE None,
     total_retrieved |-> pages,
     pages_processed |-> pages,
     http_status |-> None,
     details |-> None]

SuccessResult_pages_from_zero(h, items, pages) ==
    [status |-> "success",
     value |-> items,
     odata_count |-> IF h \in ODataEnvelopeHelpers THEN Some(Len(items)) ELSE None,
     total_retrieved |-> Len(items),
     pages_processed |-> IF pages = 0 THEN 0 ELSE pages - 1,
     http_status |-> None,
     details |-> None]

\* the success envelope returned after the loop
SuccessResult(h, items, pages) ==
    [status |-> "success",
     value |-> items,
     odata_count |-> IF h \in ODataEnvelopeHelpers THEN Some(Len(items)) ELSE None,
     total_retrieved |-> Len(items),
     pages_processed |-> pages,
     http_status |-> None,
     details |-> None]

\* exceptions that client.get or response.json() may raise
HttpStatuses == {404, 503}
HTTPError(code, bodykind) == [type |-> "HTTPError", status |-> Some(code), body |-> bodykind]
ConnectionErr == [type |-> "ConnectionError", status |-> None, body |-> "none"]
JSONDecodeErr == [type |-> "JSONDecodeError", status |-> None, body |-> "none"]
AttributeErr == [type |-> "AttributeError", status |-> None, body |-> "none"]
TokenValueError == [type |-> "ValueError", status |-> None, body |-> "none"]
RequiredParamError == [type |-> "ValueError", status |-> None, body |-> "none"]

\* bodies of a non-2xx answer: a JSON object whose 'error' member is an object
\* with a 'message', a JSON object without such a message, JSON in which
\* 'error' (or the body itself) is not an object, or no JSON at all
ErrorBodies == {"json_message", "json_no_message", "json_error_not_object", "not_json"}

\* failures of a request that reached the upstream: non-2xx answers
\* (raise_for_status) and transport errors
RequestFailures ==
    {HTTPError(c, b) : c \in HttpStatuses, b \in ErrorBodies} \cup {ConnectionErr}

\* the exception that leaves AuthenticatedHttpClient.request: its HTTPError
\* handler reads error_details_json.get("error", {}).get("message") and guards
\* only against JSONDecodeError, so a body whose 'error' is not an object
\* replaces the HTTPError by an AttributeError
client_request_raises(f) ==
    IF f.type = "HTTPError" /\ f.body = "json_error_not_object" THEN AttributeErr ELSE f

\* _handle_graph_api_error and its per-module copies
handle_api_error(e) ==
    [status |-> "error",
     value |-> None,
     odata_count |-> None,
     total_retrieved |-> 0,
     pages_processed |-> 0,
     http_status |-> IF e.type = "HTTPError" THEN e.status ELSE Some(DefaultErrorStatus),
     details |-> IF e.type = "HTTPError"
                   THEN (IF e.body = "json_message" THEN Some("error.message")
                         ELSE Some("response.text"))
                   ELSE Some(e.type)]

\* the body of a 2xx response: the batch holds the next `k` items of the collection
Batch(from, k) == [i \in 1..k |-> from + i]
ResponseBodies(from) ==
    {[value |-> val, next_link |-> nl] :
        val \in {JsonAbsent, JsonOther} \cup {JsonList(Batch(from, k)) : k \in 0..MaxBatch},
        nl \in NextLinks}

InitPaged ==
    /\ helper \in Helpers
    /\ max_items_total \in
         (IF helper \in OptionalCapHelpers THEN {None} ELSE {})
            \cup {Some(n) : n \in 0..MaxItems}
    /\ settings_MAX_PAGING_PAGES \in {None} \cup {Some(p) : p \in 1..MaxPageCap}
    /\ all_items = <<>>
    /\ current_url = Some(url_base)
    /\ page_count = 0
    /\ pc = "loop"
    /\ result = None
    /\ request = None
    /\ requests_sent = 0
    /\ last_response = None
    /\ last_failure = None
    /\ cursor_seen = FALSE
    /\ served = 0

\* one iteration up to the point where client.get has sent the request
PagedGet ==
    /\ pc = "loop"
    /\ WhileCond(helper, current_url, max_items_total, all_items, page_count,
                 settings_MAX_PAGING_PAGES)
    /\ page_count < max_pages_to_fetch(helper, settings_MAX_PAGING_PAGES) + MaxOverrun
    /\ page_count' = page_count + 1
    /\ request' = Some([url |-> Val(current_url),
                        params |-> current_params(helper, page_count', current_url)])
    /\ requests_sent' = requests_sent + 1
    /\ pc' = "awaiting"
    /\ UNCHANGED <<helper, max_items_total, settings_MAX_PAGING_PAGES, all_items,
                   current_url, result, last_response, last_failure, cursor_seen, served>>
    /\ UNCHANGED <<resolverVars, dynVars, clientVars, actionVars>>

\* one iteration in which client.get obtains no token: ValueError, nothing is sent
PagedTokenFails ==
    /\ pc = "loop"
    /\ WhileCond(helper, current_url, max_items_total, all_items, page_count,
                 settings_MAX_PAGING_PAGES)
    /\ page_count < max_pages_to_fetch(helper, settings_MAX_PAGING_PAGES) + MaxOverrun
    /\ page_count' = page_count + 1
    /\ result' = Some(handle_api_error(TokenValueError))
    /\ pc' = "done"
    /\ UNCHANGED <<helper, max_items_total, settings_MAX_PAGING_PAGES, all_items,
                   current_url, request, requests_sent, last_response, last_failure,
                   cursor_seen, served>>
    /\ UNCHANGED <<resolverVars, dynVars, clientVars, actionVars>>

\* the while condition is false: return the success envelope
PagedReturn ==
    /\ pc = "loop"
    /\ ~WhileCond(helper, current_url, max_items_total, all_items, page_count,
                  settings_MAX_PAGING_PAGES)
    /\ result' = Some(SuccessResult(helper, all_items, page_count))
    /\ pc' = "done"
    /\ UNCHANGED <<helper, max_items_total, settings_MAX_PAGING_PAGES, all_items,
                   current_url, page_count, request, requests_sent, last_response,
                   last_failure, cursor_seen, served>>
    /\ UNCHANGED <<resolverVars, dynVars, clientVars, actionVars>>

\* the rest of the iteration, given the body of a 2xx response
HandlePage(body) ==
    LET page_items == get_value(body) IN
    IF ~isinstance_list(page_items)
      THEN /\ result' = Some(SuccessResult(helper, all_items, page_count))
           /\ pc' = "done"
           /\ UNCHANGED <<all_items, current_url>>
      ELSE LET items == append_page(all_items, page_items.v, max_items_total) IN
           /\ all_items' = items
           /\ current_url' = body.next_link
           /\ IF BreakAfterPage(body.next_link, max_items_total, items)
                THEN /\ result' = Some(SuccessResult(helper, items, page_count))
                     /\ pc' = "done"
                ELSE /\ result' = result
                     /\ pc' = "loop"

\* the upstream answers 2xx with a JSON object
PagedResponseOK ==
    /\ pc = "awaiting"
    /\ \E body \in ResponseBodies(served) :
         /\ last_response' = Some(body)
         /\ cursor_seen' = (cursor_seen \/ body.next_link # None)
         /\ served' = served + Len(body.value.v)
         /\ HandlePage(body)
    /\ UNCHANGED <<helper, max_items_total, settings_MAX_PAGING_PAGES, page_count,
                   request, requests_sent, last_failure>>
    /\ UNCHANGED <<resolverVars, dynVars, clientVars, actionVars>>

\* the request fails (transport error, non-2xx), or the 2xx body is not JSON
PagedResponseFail ==
    /\ pc = "awaiting"
    /\ \E f \in RequestFailures \cup {JSONDecodeErr} :
         /\ last_failure' = Some(f)
         /\ result' = Some(handle_api_error(client_request_raises(f)))
    /\ pc' = "done"
    /\ UNCHANGED <<helper, max_items_total, settings_MAX_PAGING_PAGES, all_items,
                   current_url, page_count, request, requests_sent, last_response,
                   cursor_seen, served>>
    /\ UNCHANGED <<resolverVars, dynVars, clientVars, actionVars>>

NextPaged ==
    \/ PagedGet
    \/ PagedTokenFails
    \/ PagedReturn
    \/ PagedResponseOK
    \/ PagedResponseFail

\* ---------------------------------------------------------------------------
\* profile_get_my_direct_reports: its own loop over the pages of /me/directReports,
\* in the variables of the paginated fetch (max_items_total holds `top`,
\* all_items holds all_reports)
\* ---------------------------------------------------------------------------
\* getattr(settings, 'MAX_PAGING_PAGES', 5)
max_internal_pages(setting) ==
    IF setting # None THEN Val(setting) ELSE ReportsDefaultMaxPages

\* all_reports[:top], for top >= 0
slice_to(items, top) == SubSeq(items, 1, IF Len(items) < top THEN Len(items) ELSE top)

\* the dict returned after the loop
ReportsResult(items, top, pages) ==
    [status |-> "success",
     value |-> slice_to(items, top),
     odata_count |-> None,
     total_retrieved |-> Len(items),
     pages_processed |-> pages,
     http_status |-> None,
     details |-> None]

InitReports ==
    /\ helper = "profile_get_my_direct_reports"
    \* top is sent as $top, which the upstream accepts only if positive
    /\ max_items_total \in {Some(n) : n \in 1..MaxItems}
    /\ settings_MAX_PAGING_PAGES \in {None} \cup {Some(p) : p \in 1..MaxPageCap}
    /\ all_items = <<>>
    /\ current_url = Some(url_base)
    /\ page_count = 0
    /\ pc = "loop"
    /\ result = None
    /\ request = None
    /\ requests_sent = 0
    /\ last_response = None
    /\ last_failure = None
    /\ cursor_seen = FALSE
    /\ served = 0

\* one iteration up to the point where client.get has sent the request
ReportsGet ==
    /\ helper = "profile_get_my_direct_reports"
    /\ pc = "loop"
    /\ Truthy(current_url)
    /\ page_count < max_internal_pages(settings_MAX_PAGING_PAGES)
    /\ page_count' = page_count + 1
    /\ request' = Some([url |-> Val(current_url),
                        params |-> IF current_url = Some(url_base) /\ page_count' = 1
                                     THEN query_api_params_initial ELSE None])
    /\ requests_sent' = requests_sent + 1
    /\ pc' = "awaiting"
    /\ UNCHANGED <<helper, max_items_total, settings_MAX_PAGING_PAGES, all_items,
                   current_url, result, last_response, last_failure, cursor_seen, served>>
    /\ UNCHANGED <<resolverVars, dynVars, clientVars, actionVars>>

\* one iteration in which client.get obtains no token: ValueError, nothing is sent
ReportsTokenFails ==
    /\ helper = "profile_get_my_direct_reports"
    /\ pc = "loop"
    /\ Truthy(current_url)
    /\ page_count < max_internal_pages(settings_MAX_PAGING_PAGES)
    /\ page_count' = page_count + 1
    /\ result' = Some(handle_api_error(TokenValueError))
    /\ pc' = "done"
    /\ UNCHANGED <<helper, max_items_total, settings_MAX_PAGING_PAGES, all_items,
                   current_url, request, requests_sent, last_response, last_failure,
                   cursor_seen, served>>
    /\ UNCHANGED <<resolverVars, dynVars, clientVars, actionVars>>

\* the while condition is false: return
ReportsReturn ==
    /\ helper = "profile_get_my_direct_reports"
    /\ pc = "loop"
    /\ ~(Truthy(current_url) /\ page_count < max_internal_pages(settings_MAX_PAGING_PAGES))
    /\ result' = Some(ReportsResult(all_items, Val(max_items_total), page_count))
    /\ pc' = "done"
    /\ UNCHANGED <<helper, max_items_total, settings_MAX_PAGING_PAGES, all_items,
                   current_url, page_count, request, requests_sent, last_response,
                   last_failure, cursor_seen, served>>
    /\ UNCHANGED <<resolverVars, dynVars, clientVars, actionVars>>

\* the rest of the iteration, given the body of a 2xx response
ReportsHandlePage(body) ==
    IF body.value.t # "list"
      \* no 'value' key, or a 'value' that is no list: break
      THEN /\ result' = Some(ReportsResult(all_items, Val(max_items_total), page_count))
           /\ pc' = "done"
           /\ UNCHANGED <<all_items, current_url>>
      ELSE LET items == all_items \o body.value.v IN
           /\ all_items' = items
           /\ current_url' = body.next_link
           /\ IF ~Truthy(body.next_link) \/ Len(items) >= Val(max_items_total)
                THEN /\ result' = Some(ReportsResult(items, Val(max_items_total), page_count))
                     /\ pc' = "done"
                ELSE /\ result' = result
                     /\ pc' = "loop"

\* the upstream answers 2xx with a JSON object
ReportsResponseOK ==
    /\ helper = "profile_get_my_direct_reports"
    /\ pc = "awaiting"
    /\ \E body \in ResponseBodies(served) :
         /\ last_response' = Some(body)
         /\ cursor_seen' = (cursor_seen \/ body.next_link # None)
         /\ served' = served + Len(body.value.v)
         /\ ReportsHandlePage(body)
    /\ UNCHANGED <<helper, max_items_total, settings_MAX_PAGING_PAGES, page_count,
                   request, requests_sent, last_failure>>
    /\ UNCHANGED <<resolverVars, dynVars, clientVars, actionVars>>

\* the request fails, or the 2xx body is not JSON
ReportsResponseFail ==
    /\ helper = "profile_get_my_direct_reports"
    /\ pc = "awaiting"
    /\ \E f \in RequestFailures \cup {JSONDecodeErr} :
         /\ last_failure' = Some(f)
         /\ result' = Some(handle_api_error(client_request_raises(f)))
    /\ pc' = "done"
    /\ UNCHANGED <<helper, max_items_total, settings_MAX_PAGING_PAGES, all_items,
                   current_url, page_count, request, requests_sent, last_response,
                   cursor_seen, served>>
    /\ UNCHANGED <<resolverVars, dynVars, clientVars, actionVars>>

NextReports ==
    \/ ReportsGet
    \/ ReportsTokenFails
    \/ ReportsReturn
    \/ ReportsResponseOK
    \/ ReportsResponseFail

\* ---------------------------------------------------------------------------
\* The /dynamics endpoint: process_dynamic_action
\* ---------------------------------------------------------------------------
HTTP_200_OK == 200
HTTP_400_BAD_REQUEST == 400
HTTP_500_INTERNAL_SERVER_ERROR == 500

\* some of the entries of ACTION_MAP: action name :> handler function
ACTION_MAP ==
    "calendar_list_events" :> "calendario_actions.calendar_list_events" @@
    "graph_generic_post" :> "graph_actions.generic_post" @@
    "powerbi_export_report" :> "powerbi_actions.export_report" @@
    "sp_add_list_item" :> "sharepoint_actions.add_list_item" @@
    "sp_download_document" :> "sharepoint_actions.download_document" @@
    "sp_memory_export_session" :> "sharepoint_actions.memory_export_session" @@
    "profile_get_my_photo" :> "userprofile_actions.profile_get_my_photo"

\* the action names a request may carry: keys of ACTION_MAP and other strings
ActionNames == DOMAIN ACTION_MAP \cup {"memory_export_session", "no_such_action", ""}

\* the entries of params the endpoint reads: 'format', and the extension of
\* 'filename' (None when there is no name with a '.')
Formats == {None, Some("csv"), Some("json")}
Extensions == {None, Some("pdf"), Some("csv"), Some("bin")}
ParamsReq == [format : Formats, ext : Extensions]

\* exceptions of the credential check: credential.get_token raises one of the
\* three kinds caught there, or the construction of the credential or of the
\* client raises
CredentialFailures == {"CredentialUnavailableError", "ClientAuthenticationError",
                       "Exception", "auth_setup_ex"}

\* create_error_response
create_error_response(status_code, message) ==
    [kind |-> "error_envelope", status_code |-> status_code,
     media_type |-> "application/json", message |-> message]

\* variant of the lookup that falls back to a default handler
action_function_with_default(name) ==
    IF name \in DOMAIN ACTION_MAP THEN Some(ACTION_MAP[name])
    ELSE Some("graph_actions.generic_get")

\* ACTION_MAP.get(action_name)
action_function(name) ==
    IF name \in DOMAIN ACTION_MAP THEN Some(ACTION_MAP[name]) ELSE None

\* what a handler call ends with: an exception, bytes, a str, a dict, or any
\* other value (None, a list, ...). Of a dict the endpoint reads 'status' and
\* 'http_status' (None: no such key; int: whether the value is an int);
\* valid: an error dict's 'message' is a str, a success dict is JSON-serialisable
HandlerStatusCodes == {201, 404}
HttpStatusValues ==
    {None, Some([int |-> FALSE, v |-> 0])} \cup
    {Some([int |-> TRUE, v |-> c]) : c \in HandlerStatusCodes}
Raises == [t |-> "raises", status |-> "none", http_status |-> None, valid |-> TRUE]
Bytes == [t |-> "bytes", status |-> "none", http_status |-> None, valid |-> TRUE]
Str == [t |-> "str", status |-> "none", http_status |-> None, valid |-> TRUE]
Other == [t |-> "other", status |-> "none", http_status |-> None, valid |-> TRUE]
Dicts == [t : {"dict"}, status : {"success", "error", "partial_error"},
          http_status : HttpStatusValues,
          valid : BOOLEAN]
HandlerResults == {Raises, Bytes, Str, Other} \cup Dicts

\* "photo" in action_name.lower() or action_name.endswith("_get_my_photo")
is_photo_action(name) == name \in {"profile_get_my_photo"}

\* action_name.endswith("_download_document") or action_name.endswith("_export_report")
is_download_action(name) == name \in {"sp_download_document", "powerbi_export_report"}

\* the media type of a bytes result
media_type(name, params) ==
    IF is_photo_action(name) THEN "image/jpeg"
    ELSE IF is_download_action(name) /\ params.ext = Some("pdf") THEN "application/pdf"
    ELSE IF is_download_action(name) /\ params.ext = Some("csv") THEN "text/csv"
    ELSE "application/octet-stream"

\* variant of the range test that takes every code below 500 as a success code
is_2xx_up_to_499(code) == 200 <= code /\ code < 500

\* 200 <= code < 300
is_2xx(code) == 200 <= code /\ code < 300

\* the branches of the try block for a value the handler returned
process_returned(name, params, r) ==
    IF r.t = "bytes"
      THEN [kind |-> "binary", status_code |-> HTTP_200_OK,
            media_type |-> media_type(name, params), message |-> ""]
    ELSE IF r.t = "str" /\ name = "memory_export_session" /\ params.format = Some("csv")
      THEN [kind |-> "csv", status_code |-> HTTP_200_OK,
            media_type |-> "text/csv", message |-> ""]
    ELSE IF r.t = "dict"
      THEN IF (IF r.http_status = None THEN FALSE ELSE ~Val(r.http_status).int)
             \* the comparison with 200 raises TypeError
             THEN create_error_response(HTTP_500_INTERNAL_SERVER_ERROR, "exception")
           ELSE IF r.status = "error"
             THEN LET given == IF r.http_status = None THEN HTTP_500_INTERNAL_SERVER_ERROR
                               ELSE Val(r.http_status).v
                      error_status_code == IF is_2xx(given)
                                             THEN HTTP_500_INTERNAL_SERVER_ERROR ELSE given
                  IN IF r.valid THEN create_error_response(error_status_code, "action_error")
                     \* ErrorResponse(message=<not a str>) raises ValidationError
                     ELSE create_error_response(HTTP_500_INTERNAL_SERVER_ERROR, "exception")
           ELSE LET given == IF r.http_status = None THEN HTTP_200_OK
                             ELSE Val(r.http_status).v
                    success_status_code == IF is_2xx(given) THEN given ELSE HTTP_200_OK
                IN IF r.valid
                     THEN [kind |-> "json", status_code |-> success_status_code,
                           media_type |-> "application/json", message |-> ""]
                     \* JSONResponse cannot render the content
                     ELSE create_error_response(HTTP_500_INTERNAL_SERVER_ERROR, "exception")
    ELSE create_error_response(HTTP_500_INTERNAL_SERVER_ERROR, "unexpected_type")

\* variant in which an exception of the handler leaves the endpoint
process_result_reraises(name, params, r) ==
    IF r.t = "raises"
      THEN [kind |-> "escaped", status_code |-> HTTP_500_INTERNAL_SERVER_ERROR,
            media_type |-> "text/plain", message |-> "Internal Server Error"]
      ELSE process_returned(name, params, r)

\* the try block around the handler call: the response for what the handler
\* returned or raised
process_result(name, params, r) ==
    IF r.t = "raises"
      THEN create_error_response(HTTP_500_INTERNAL_SERVER_ERROR, "exception")
      ELSE process_returned(name, params, r)

DynIdle ==
    /\ action_name = ""
    /\ params_req = [format |-> None, ext |-> None]
    /\ credential = "unchecked"
    /\ dpc = "idle"
    /\ invoked = <<>>
    /\ handler_result = None
    /\ response = None
    /\ responses_sent = 0

InitDynamics ==
    /\ action_name \in ActionNames
    /\ params_req \in ParamsReq
    /\ credential = "unchecked"
    /\ dpc = "received"
    /\ invoked = <<>>
    /\ handler_result = None
    /\ response = None
    /\ responses_sent = 0

\* the credential check fails: error response, the action is not looked up
DynCredentialFails ==
    /\ dpc = "received"
    /\ \E e \in CredentialFailures : credential' = e
    /\ response' = Some(create_error_response(HTTP_500_INTERNAL_SERVER_ERROR, "auth"))
    /\ responses_sent' = responses_sent + 1
    /\ dpc' = "responded"
    /\ UNCHANGED <<action_name, params_req, invoked, handler_result>>
    /\ UNCHANGED <<pagedVars, resolverVars, clientVars, actionVars>>

\* the credential check passes and the client is built
DynCredentialOK ==
    /\ dpc = "received"
    /\ credential' = "ok"
    /\ dpc' = "lookup"
    /\ UNCHANGED <<action_name, params_req, invoked, handler_result, response,
                   responses_sent>>
    /\ UNCHANGED <<pagedVars, resolverVars, clientVars, actionVars>>

\* the action name is not in ACTION_MAP
DynInvalidAction ==
    /\ dpc = "lookup"
    /\ action_function(action_name) = None
    /\ response' = Some(create_error_response(HTTP_400_BAD_REQUEST, "invalid_action"))
    /\ responses_sent' = responses_sent + 1
    /\ dpc' = "responded"
    /\ UNCHANGED <<action_name, params_req, credential, invoked, handler_result>>
    /\ UNCHANGED <<pagedVars, resolverVars, clientVars, actionVars>>

\* the handler is called
DynInvoke ==
    /\ dpc = "lookup"
    /\ action_function(action_name) # None
    /\ invoked' = Append(invoked, Val(action_function(action_name)))
    /\ dpc' = "running"
    /\ UNCHANGED <<action_name, params_req, credential, handler_result, response,
                   responses_sent>>
    /\ UNCHANGED <<pagedVars, resolverVars, clientVars, actionVars>>

\* the handler returns or raises, and the endpoint answers
DynHandlerEnds ==
    /\ dpc = "running"
    /\ \E r \in HandlerResults :
         /\ handler_result' = Some(r)
         /\ response' = Some(process_result(action_name, params_req, r))
    /\ responses_sent' = responses_sent + 1
    /\ dpc' = "responded"
    /\ UNCHANGED <<action_name, params_req, credential, invoked>>
    /\ UNCHANGED <<pagedVars, resolverVars, clientVars, actionVars>>

NextDynamics ==
    \/ DynCredentialFails
    \/ DynCredentialOK
    \/ DynInvalidAction
    \/ DynInvoke
    \/ DynHandlerEnds

\* ---------------------------------------------------------------------------
\* AuthenticatedHttpClient.request
\* ---------------------------------------------------------------------------
Methods == {"GET", "POST", "PATCH"}
Scopes == {<<>>, <<"graph/.default">>, <<"management/.default">>}

\* the keyword arguments of a call: which keyword carries the payload, and the
\* headers argument (not given, given as None, or a dict, of which the client
\* reads 'Authorization' and 'Content-Type')
BodyKeywords == {"none", "json", "data", "json_data"}
HeadersArgs ==
    {[given |-> "absent", Authorization |-> None, ContentType |-> None],
     [given |-> "None", Authorization |-> None, ContentType |-> None]} \cup
    [given : {"dict"}, Authorization : {None, Some("caller")},
     ContentType : {None, Some("text/plain")}]
Kwargs == [body : BodyKeywords, headers : HeadersArgs]

\* what credential.get_token does: it returns a token for the scopes it was
\* given, a token whose text is empty, or raises
CredentialOutcomes == {"token", "empty_token", "CredentialUnavailableError",
                       "ClientAuthenticationError", "Exception"}
Token(sc, text) == [for |-> sc, text |-> text]

\* _get_access_token
get_access_token(sc, cred) ==
    IF sc = <<>> THEN None
    ELSE IF cred = "token" THEN Some(Token(sc, "secret"))
    ELSE IF cred = "empty_token" THEN Some(Token(sc, ""))
    ELSE None

\* Python truth of the Optional[str] that _get_access_token returns
TokenTruthy(t) == IF t = None THEN FALSE ELSE Val(t).text # ""

Bearer(t) == <<"Bearer", t>>

\* variant that keeps an Authorization header of the caller
request_headers_keeps_caller(kw, t) ==
    [Authorization |-> IF kw.headers.Authorization # None
                         THEN <<"caller", t>> ELSE Bearer(t),
     ContentType |-> IF kw.body \in {"json", "data"} /\ kw.headers.ContentType = None
                       THEN Some("application/json") ELSE kw.headers.ContentType]

\* request_headers = kwargs.pop('headers', {}).copy(), then Authorization and
\* the default Content-Type
request_headers(kw, t) ==
    [Authorization |-> Bearer(t),
     ContentType |-> IF kw.body \in {"json", "data"} /\ kw.headers.ContentType = None
                       THEN Some("application/json") ELSE kw.headers.ContentType]

\* the exception raised between the token and the upstream request, if any:
\* None has no copy(); Session.request has no keyword 'json_data'
raises_before_send(kw) ==
    IF kw.headers.given = "None" THEN Some(AttributeErr)
    ELSE IF kw.body = "json_data"
      THEN Some([type |-> "TypeError", status |-> None, body |-> "none"])
    ELSE None

ReturnsResponse(r) == [kind |-> "returned", exc |-> r]
RaisesError(e) == [kind |-> "raised", exc |-> e.type]

ClientIdle ==
    /\ method = "GET"
    /\ scope = <<>>
    /\ kwargs = [body |-> "none",
                 headers |-> [given |-> "absent", Authorization |-> None,
                              ContentType |-> None]]
    /\ cpc = "idle"
    /\ access_token = None
    /\ sent = None
    /\ upstream_requests = 0
    /\ outcome = None

InitClient ==
    /\ method \in Methods
    /\ scope \in Scopes
    /\ kwargs \in Kwargs
    /\ cpc = "start"
    /\ access_token = None
    /\ sent = None
    /\ upstream_requests = 0
    /\ outcome = None

\* no scope, or no usable token: ValueError
ClientNoToken ==
    /\ cpc = "start"
    /\ \E cred \in CredentialOutcomes :
         /\ ~TokenTruthy(get_access_token(scope, cred))
         /\ access_token' = get_access_token(scope, cred)
    /\ outcome' = Some(RaisesError(TokenValueError))
    /\ cpc' = "done"
    /\ UNCHANGED <<method, scope, kwargs, sent, upstream_requests>>
    /\ UNCHANGED <<pagedVars, resolverVars, dynVars, actionVars>>

\* a token is obtained, but the call raises before anything is sent
ClientRaisesBeforeSend ==
    /\ cpc = "start"
    /\ \E cred \in CredentialOutcomes :
         /\ TokenTruthy(get_access_token(scope, cred))
         /\ access_token' = get_access_token(scope, cred)
    /\ raises_before_send(kwargs) # None
    /\ outcome' = Some(RaisesError(Val(raises_before_send(kwargs))))
    /\ cpc' = "done"
    /\ UNCHANGED <<method, scope, kwargs, sent, upstream_requests>>
    /\ UNCHANGED <<pagedVars, resolverVars, dynVars, actionVars>>

\* a token is obtained and session.request sends the HTTP request
ClientSend ==
    /\ cpc = "start"
    /\ \E cred \in CredentialOutcomes :
         /\ TokenTruthy(get_access_token(scope, cred))
         /\ access_token' = get_access_token(scope, cred)
    /\ raises_before_send(kwargs) = None
    /\ sent' = Some([method |-> method, body |-> kwargs.body,
                     headers |-> request_headers(kwargs, Val(access_token'))])
    /\ upstream_requests' = upstream_requests + 1
    /\ cpc' = "awaiting"
    /\ UNCHANGED <<method, scope, kwargs, outcome>>
    /\ UNCHANGED <<pagedVars, resolverVars, dynVars, actionVars>>

\* the upstream answers 2xx: the response is returned
ClientResponseOK ==
    /\ cpc = "awaiting"
    /\ outcome' = Some(ReturnsResponse("response"))
    /\ cpc' = "done"
    /\ UNCHANGED <<method, scope, kwargs, access_token, sent, upstream_requests>>
    /\ UNCHANGED <<pagedVars, resolverVars, dynVars, actionVars>>

\* the upstream answers non-2xx, or the transport fails: the exception is
\* logged and raised again
ClientResponseFail ==
    /\ cpc = "awaiting"
    /\ \E f \in RequestFailures : outcome' = Some(RaisesError(client_request_raises(f)))
    /\ cpc' = "done"
    /\ UNCHANGED <<method, scope, kwargs, access_token, sent, upstream_requests>>
    /\ UNCHANGED <<pagedVars, resolverVars, dynVars, actionVars>>

NextClient ==
    \/ ClientNoToken
    \/ ClientRaisesBeforeSend
    \/ ClientSend
    \/ ClientResponseOK
    \/ ClientResponseFail

\* ---------------------------------------------------------------------------
\* Strings and the classification heuristics
\* ---------------------------------------------------------------------------
Alphabet == {"a", "/", ".", "!", " "}
IdAlphabet == {"a", ".", "!"}
driveItem_ == <<"d", "r", "i", "v", "e", "I", "t", "e", "m", "_">>

\* c in s
Contains(s, c) == \E i \in 1..Len(s) : s[i] = c

\* s.startswith(p)
StartsWith(s, p) == IF Len(s) < Len(p) THEN FALSE ELSE SubSeq(s, 1, Len(p)) = p

\* s.strip()
RECURSIVE lstrip(_)
lstrip(s) == IF s = <<>> THEN s ELSE IF Head(s) = " " THEN lstrip(Tail(s)) ELSE s
RECURSIVE rstrip(_)
rstrip(s) == IF s = <<>> THEN s
             ELSE IF s[Len(s)] = " " THEN rstrip(SubSeq(s, 1, Len(s) - 1)) ELSE s
strip(s) == rstrip(lstrip(s))

\* strings over an alphabet, up to a length
StringsUpTo(alphabet, n) == UNION {[1..k -> alphabet] : k \in 0..n}
Pad(n) == [i \in 1..n |-> "a"]

\* string lengths around the two thresholds of the heuristics
PadLens == {0, IdLengthThreshold - 1, PathLengthLimit - 2}

\* the strings a caller passes as item path or ID
Inputs == {pre \o core \o Pad(n) :
              pre \in {<<>>, driveItem_}, core \in StringsUpTo(Alphabet, MaxCore),
              n \in PadLens}

\* the 'id' values the upstream returns for an item
UpstreamIds == {core \o Pad(n) : core \in StringsUpTo(IdAlphabet, MaxCore), n \in PadLens}
                  \ {<<>>}

\* variant of the heuristic with the length test off by one
is_likely_id_off_by_one(s) ==
    \/ Contains(s, "!")
    \/ (Len(s) >= IdLengthThreshold /\ ~Contains(s, "/") /\ ~Contains(s, "."))
    \/ StartsWith(s, driveItem_)

\* is_likely_id of _get_item_id_from_path_if_needed_sp and _get_item_id_from_path_if_needed
is_likely_id(s) ==
    \/ Contains(s, "!")
    \/ (Len(s) > IdLengthThreshold /\ ~Contains(s, "/") /\ ~Contains(s, "."))
    \/ StartsWith(s, driveItem_)

\* is_path_like of _internal_onedrive_get_item_metadata
is_path_like(s) ==
    \/ Contains(s, "/")
    \/ (Contains(s, ".") /\ ~StartsWith(s, driveItem_) /\ Len(s) < PathLengthLimit)
    \/ (~StartsWith(s, driveItem_) /\ Len(s) < PathLengthLimit
          /\ ~Contains(s, ".") /\ ~Contains(s, "!"))

\* is_item_id of get_file_metadata
is_item_id(s) == ~Contains(s, "/") /\ (Len(s) > IdLengthThreshold \/ Contains(s, "!"))

\* _get_sp_item_endpoint_by_path and _get_od_me_item_by_path_endpoint
item_by_path_endpoint(relative_path) ==
    LET safe_path == strip(relative_path) IN
    IF safe_path = <<>> \/ safe_path = <<"/">>
      THEN [kind |-> "root", arg |-> <<>>]
      ELSE [kind |-> "root:/", arg |-> IF Head(safe_path) = "/" THEN Tail(safe_path)
                                        ELSE safe_path]

\* _get_sp_item_endpoint_by_id and _get_od_me_item_by_id_endpoint
item_by_id_endpoint(item_id) == [kind |-> "items/", arg |-> item_id]

\* the endpoint the metadata lookup requests
metadata_endpoint(svc, s) ==
    IF svc = "onedrive"
      THEN (IF is_path_like(s) THEN item_by_path_endpoint(s) ELSE item_by_id_endpoint(s))
      ELSE (IF is_item_id(s) THEN item_by_id_endpoint(s) ELSE item_by_path_endpoint(s))

\* results of the resolver: an ID, or an error dict
IdResult(i) == [kind |-> "id", id |-> i, http_status |-> None]
ErrorResult(st) == [kind |-> "error", id |-> <<>>, http_status |-> st]

\* the error the resolver returns when the metadata lookup returned an error envelope
lookup_error(svc, f) == ErrorResult(handle_api_error(client_request_raises(f)).http_status)

\* the metadata is JSON but no object: data.get raises; get_file_metadata's
\* caller catches it, _get_item_id_from_path_if_needed has no try and raises
non_object_data(svc) ==
    IF svc = "sharepoint" THEN ErrorResult(Some(DefaultErrorStatus))
    ELSE [kind |-> "raised", id |-> <<>>, http_status |-> None]

\* the error the resolver returns when the metadata has no 'id'
no_id_error(svc) ==
    IF svc = "sharepoint" THEN ErrorResult(Some(NotFoundStatus)) ELSE ErrorResult(None)

\* exceptions raised inside the metadata lookup before the item GET is sent:
\* no access token, or (SharePoint) the site or drive cannot be resolved
PreLookupFailures(svc) ==
    {TokenValueError} \cup (IF svc = "sharepoint" THEN {ConnectionErr} ELSE {})

ResolverIdle ==
    /\ service = "onedrive"
    /\ item_path_or_id = <<>>
    /\ rpc = "idle"
    /\ classified = "none"
    /\ resolved = None
    /\ lookup = None
    /\ round = 1
    /\ path_id = None

PagedIdle ==
    /\ helper = "_sp_paged_request"
    /\ max_items_total = None
    /\ settings_MAX_PAGING_PAGES = None
    /\ all_items = <<>>
    /\ current_url = None
    /\ page_count = 0
    /\ pc = "idle"
    /\ result = None
    /\ request = None
    /\ requests_sent = 0
    /\ last_response = None
    /\ last_failure = None
    /\ cursor_seen = FALSE
    /\ served = 0

ItemIdle ==
    /\ item_action = "delete_item"
    /\ ipc = "idle"
    /\ item_result = None
    /\ item_requests = <<>>

SiteIdle ==
    /\ site_action = "delete_list"
    /\ site_input = None
    /\ SHAREPOINT_DEFAULT_SITE_ID = None
    /\ spc = "idle"
    /\ lookup_path = None
    /\ target_site_id = None
    /\ site_lookups = 0
    /\ site_requests = <<>>
    /\ site_result = None

UploadIdle ==
    /\ upload_service = "onedrive"
    /\ file_size_bytes = 0
    /\ upc = "idle"
    /\ upload_requests = <<>>
    /\ upstream_failed = FALSE
    /\ upload_result = None

\* the concurrent callers of the memory handlers
Callers == {1, 2}

MemoryIdle ==
    /\ memory_list = <<>>
    /\ mem_op = [p \in Callers |-> "none"]
    /\ mem_params = [p \in Callers |-> [session_id |-> "", clave |-> None, valor |-> None]]
    /\ mpc = [p \in Callers |-> "idle"]
    /\ mem_items = [p \in Callers |-> <<>>]
    /\ deleted_count = [p \in Callers |-> 0]
    /\ errors_on_delete = [p \in Callers |-> <<>>]
    /\ delete_attempts = [p \in Callers |-> <<>>]
    /\ env_failed = [p \in Callers |-> FALSE]
    /\ saved_before = [p \in Callers |-> FALSE]
    /\ mem_result = [p \in Callers |-> None]

\* no SharePoint or OneDrive handler is running
ActionsIdle == ItemIdle /\ SiteIdle /\ UploadIdle /\ MemoryIdle

InitResolver ==
    /\ PagedIdle
    /\ DynIdle
    /\ ClientIdle
    /\ ActionsIdle
    /\ service \in {"sharepoint", "onedrive"}
    \* every SharePoint caller rejects an empty item_id_or_path before resolving;
    \* OneDrive's create_folder passes ruta_padre_relativa as it is
    /\ item_path_or_id \in (IF service = "sharepoint" THEN Inputs \ {<<>>} ELSE Inputs)
    /\ rpc = "start"
    /\ classified = "none"
    /\ resolved = None
    /\ lookup = None
    /\ round = 1
    /\ path_id = None

\* is_likely_id: the string is returned as it is
ResolverReturnsId ==
    /\ rpc = "start"
    /\ is_likely_id(item_path_or_id)
    /\ classified' = "id"
    /\ resolved' = Some(IdResult(item_path_or_id))
    /\ rpc' = "done"
    /\ UNCHANGED <<service, item_path_or_id, lookup, round, path_id>>
    /\ UNCHANGED <<pagedVars, dynVars, clientVars, actionVars>>

\* the metadata lookup rejects the empty string without a request
ResolverLookupEmpty ==
    /\ rpc = "start"
    /\ ~is_likely_id(item_path_or_id)
    /\ item_path_or_id = <<>>
    /\ classified' = "path"
    /\ resolved' = Some(lookup_error(service, RequiredParamError))
    /\ rpc' = "done"
    /\ UNCHANGED <<service, item_path_or_id, lookup, round, path_id>>
    /\ UNCHANGED <<pagedVars, dynVars, clientVars, actionVars>>

\* the metadata lookup raises before the item GET is sent
ResolverLookupRaises ==
    /\ rpc = "start"
    /\ ~is_likely_id(item_path_or_id)
    /\ item_path_or_id # <<>>
    /\ \E e \in PreLookupFailures(service) :
         resolved' = Some(lookup_error(service, e))
    /\ classified' = "path"
    /\ rpc' = "done"
    /\ UNCHANGED <<service, item_path_or_id, lookup, round, path_id>>
    /\ UNCHANGED <<pagedVars, dynVars, clientVars, actionVars>>

\* the metadata lookup sends the item GET
ResolverLookupGet ==
    /\ rpc = "start"
    /\ ~is_likely_id(item_path_or_id)
    /\ item_path_or_id # <<>>
    /\ classified' = "path"
    /\ lookup' = Some(metadata_endpoint(service, item_path_or_id))
    /\ rpc' = "awaiting"
    /\ UNCHANGED <<service, item_path_or_id, resolved, round, path_id>>
    /\ UNCHANGED <<pagedVars, dynVars, clientVars, actionVars>>

\* the upstream answers the item GET with metadata that has an 'id'
ResolverLookupFound ==
    /\ rpc = "awaiting"
    /\ \E i \in UpstreamIds :
         /\ resolved' = Some(IdResult(i))
         /\ path_id' = IF round = 1 THEN Some(i) ELSE path_id
    /\ rpc' = "done"
    /\ UNCHANGED <<service, item_path_or_id, classified, lookup, round>>
    /\ UNCHANGED <<pagedVars, dynVars, clientVars, actionVars>>

\* the upstream answers with metadata without 'id', or the GET fails
ResolverLookupFails ==
    /\ rpc = "awaiting"
    /\ \/ resolved' = Some(no_id_error(service))
       \/ resolved' = Some(non_object_data(service))
       \/ \E f \in RequestFailures \cup {JSONDecodeErr} :
            resolved' = Some(lookup_error(service, f))
    /\ rpc' = "done"
    /\ UNCHANGED <<service, item_path_or_id, classified, lookup, round, path_id>>
    /\ UNCHANGED <<pagedVars, dynVars, clientVars, actionVars>>

\* the caller passes the ID obtained from a path back to the resolver
ResolveAgain ==
    /\ rpc = "done"
    /\ round = 1
    /\ path_id # None
    /\ item_path_or_id' = Val(path_id)
    /\ round' = 2
    /\ rpc' = "start"
    /\ classified' = "none"
    /\ resolved' = None
    /\ lookup' = None
    /\ UNCHANGED <<service, path_id>>
    /\ UNCHANGED <<pagedVars, dynVars, clientVars, actionVars>>

NextResolver ==
    \/ ResolverReturnsId
    \/ ResolverLookupEmpty
    \/ ResolverLookupRaises
    \/ ResolverLookupGet
    \/ ResolverLookupFound
    \/ ResolverLookupFails
    \/ ResolveAgain

\* ---------------------------------------------------------------------------
\* delete_item, move_item, copy_item, update_file_metadata / update_item_metadata,
\* get_sharing_link, add_item_permissions, remove_item_permissions
\* ---------------------------------------------------------------------------
ItemActions(svc) ==
    IF svc = "sharepoint"
      THEN {"delete_item", "move_item", "copy_item", "update_file_metadata",
            "get_sharing_link", "add_item_permissions", "remove_item_permissions"}
      ELSE {"delete_item", "move_item", "copy_item", "update_item_metadata",
            "get_sharing_link"}

\* client.delete, client.patch or client.post
item_method(a) ==
    IF a \in {"delete_item", "remove_item_permissions"} THEN "DELETE"
    ELSE IF a \in {"move_item", "update_file_metadata", "update_item_metadata"} THEN "PATCH"
    ELSE "POST"

\* the PATCH and POST calls pass their payload as json_data=
item_kwargs(a) ==
    [body |-> IF item_method(a) = "DELETE" THEN "none" ELSE "json_data",
     headers |-> [given |-> "absent", Authorization |-> None, ContentType |-> None]]

\* isinstance(item_actual_id, dict), with or without .get("status") == "error"
returns_resolved_never(svc, a, r) == FALSE
returns_resolved(svc, a, r) ==
    IF svc = "sharepoint" /\ a \notin {"add_item_permissions", "remove_item_permissions"}
      THEN r.kind # "id"
      ELSE r.kind = "error"

\* str(item_actual_id)
str(r) == IF r.kind = "id" THEN r.id ELSE <<"{">>

\* what the handlers return
ItemError(e) == ErrorResult(handle_api_error(e).http_status)
ItemSuccess(i) == [kind |-> "success", id |-> i, http_status |-> None]

\* the handler is called with a non-empty path-or-ID; the site and the drive
\* (SharePoint) are resolved first, then the resolver is called
InitItemAction ==
    /\ PagedIdle
    /\ DynIdle
    /\ ClientIdle
    /\ SiteIdle
    /\ UploadIdle
    /\ MemoryIdle
    /\ service \in {"sharepoint", "onedrive"}
    /\ item_path_or_id \in Inputs \ {<<>>}
    /\ rpc = "start"
    /\ classified = "none"
    /\ resolved = None
    /\ lookup = None
    /\ round = 1
    /\ path_id = None
    /\ item_action \in ItemActions(service)
    /\ ipc = "resolving"
    /\ item_result = None
    /\ item_requests = <<>>

\* _obtener_site_id_sp or _get_drive_id raises: the resolver is not called
ItemSiteOrDriveFails ==
    /\ ipc = "resolving"
    /\ rpc = "start"
    /\ service = "sharepoint"
    /\ item_result' = Some(ItemError(ConnectionErr))
    /\ ipc' = "done"
    /\ rpc' = "idle"
    /\ UNCHANGED <<item_action, item_requests>>
    /\ UNCHANGED <<service, item_path_or_id, classified, resolved, lookup, round, path_id>>
    /\ UNCHANGED <<pagedVars, dynVars, clientVars, notItemVars>>

\* the resolver returned an error dict: the handler returns it
ItemReturnsResolved ==
    /\ ipc = "resolving"
    /\ rpc = "done"
    /\ Val(resolved).kind # "raised"
    /\ returns_resolved(service, item_action, Val(resolved))
    /\ item_result' = resolved
    /\ ipc' = "done"
    /\ UNCHANGED <<item_action, item_requests>>
    /\ UNCHANGED <<pagedVars, resolverVars, dynVars, clientVars, notItemVars>>

\* the resolver raised: the handler's except clause returns an error
ItemResolverRaised ==
    /\ ipc = "resolving"
    /\ rpc = "done"
    /\ Val(resolved).kind = "raised"
    /\ item_result' = Some(ItemError(AttributeErr))
    /\ ipc' = "done"
    /\ UNCHANGED <<item_action, item_requests>>
    /\ UNCHANGED <<pagedVars, resolverVars, dynVars, clientVars, notItemVars>>

\* client.delete / patch / post raises before a request is sent: no token,
\* or the keyword json_data
ItemRequestNotSent ==
    /\ ipc = "resolving"
    /\ rpc = "done"
    /\ Val(resolved).kind # "raised"
    /\ ~returns_resolved(service, item_action, Val(resolved))
    /\ \E e \in {TokenValueError} \cup
                (IF raises_before_send(item_kwargs(item_action)) = None THEN {}
                 ELSE {Val(raises_before_send(item_kwargs(item_action)))}) :
         item_result' = Some(ItemError(e))
    /\ ipc' = "done"
    /\ UNCHANGED <<item_action, item_requests>>
    /\ UNCHANGED <<pagedVars, resolverVars, dynVars, clientVars, notItemVars>>

\* the DELETE, PATCH or POST for items/<id> is sent
ItemSend ==
    /\ ipc = "resolving"
    /\ rpc = "done"
    /\ Val(resolved).kind # "raised"
    /\ ~returns_resolved(service, item_action, Val(resolved))
    /\ raises_before_send(item_kwargs(item_action)) = None
    /\ item_requests' = Append(item_requests,
                               [method |-> item_method(item_action),
                                endpoint |-> item_by_id_endpoint(str(Val(resolved)))])
    /\ ipc' = "awaiting"
    /\ UNCHANGED <<item_action, item_result>>
    /\ UNCHANGED <<pagedVars, resolverVars, dynVars, clientVars, notItemVars>>

\* the upstream answers 2xx
ItemResponseOK ==
    /\ ipc = "awaiting"
    /\ item_result' = Some(ItemSuccess(str(Val(resolved))))
    /\ ipc' = "done"
    /\ UNCHANGED <<item_action, item_requests>>
    /\ UNCHANGED <<pagedVars, resolverVars, dynVars, clientVars, notItemVars>>

\* the request fails
ItemResponseFail ==
    /\ ipc = "awaiting"
    /\ \E f \in RequestFailures :
         item_result' = Some(ItemError(client_request_raises(f)))
    /\ ipc' = "done"
    /\ UNCHANGED <<item_action, item_requests>>
    /\ UNCHANGED <<pagedVars, resolverVars, dynVars, clientVars, notItemVars>>

NextItemAction ==
    \/ ItemSiteOrDriveFails
    \/ ResolverReturnsId
    \/ ResolverLookupRaises
    \/ ResolverLookupGet
    \/ ResolverLookupFound
    \/ ResolverLookupFails
    \/ ItemReturnsResolved
    \/ ItemResolverRaised
    \/ ItemRequestNotSent
    \/ ItemSend
    \/ ItemResponseOK
    \/ ItemResponseFail

\* ---------------------------------------------------------------------------
\* _obtener_site_id_sp and the handlers delete_list and delete_list_item
\* ---------------------------------------------------------------------------
SiteActions == {"delete_list", "delete_list_item"}

\* the kinds of string a caller gives as site_id / site_identifier
SiteInputs == {"root", "guid", "composite_id", "hostname_path", "relative_path", "name"}

\* values of settings.SHAREPOINT_DEFAULT_SITE_ID
DefaultSiteSettings == {None, Some("composite_id"), Some("name")}

\* _is_valid_graph_site_id_format
is_valid_graph_site_id_format(site_id_string) ==
    site_id_string \in {"root", "guid", "composite_id", "hostname_path"}

\* not ':' in site_input and site_input.startswith("/sites/") or "/teams/"
is_relative_path(site_input_string) == site_input_string = "relative_path"

\* the sites a request can address
NamedSite == "named"
DefaultSite == "default"
RootSite == "root"

\* what the handlers return
SiteError(e) == [status |-> "error", http_status |-> handle_api_error(e).http_status]
SiteSuccess(code) == [status |-> "success", http_status |-> Some(code)]
NoContentStatus == 204

InitSite ==
    /\ site_action \in SiteActions
    /\ site_input \in {None} \cup {Some(k) : k \in SiteInputs}
    /\ SHAREPOINT_DEFAULT_SITE_ID \in DefaultSiteSettings
    /\ spc = "start"
    /\ lookup_path = None
    /\ target_site_id = None
    /\ site_lookups = 0
    /\ site_requests = <<>>
    /\ site_result = None

\* the parameters name no site
SiteNoInput ==
    /\ spc = "start"
    /\ site_input = None
    /\ spc' = "fallback"
    /\ UNCHANGED <<site_action, site_input, SHAREPOINT_DEFAULT_SITE_ID, lookup_path,
                   target_site_id, site_lookups, site_requests, site_result>>
    /\ UNCHANGED <<pagedVars, resolverVars, dynVars, clientVars, notSiteVars>>

\* the input has the format of a Graph site ID: it is returned as it is
SiteIdFormat ==
    /\ spc = "start"
    /\ site_input # None
    /\ is_valid_graph_site_id_format(Val(site_input))
    /\ target_site_id' = Some(NamedSite)
    /\ spc' = "resolved"
    /\ UNCHANGED <<site_action, site_input, SHAREPOINT_DEFAULT_SITE_ID, lookup_path,
                   site_lookups, site_requests, site_result>>
    /\ UNCHANGED <<pagedVars, resolverVars, dynVars, clientVars, notSiteVars>>

\* a server-relative path: the hostname of the root site is asked for; with
\* it the lookup path becomes hostname:path, without it the input is kept
SiteHostname ==
    /\ spc = "start"
    /\ site_input # None
    /\ ~is_valid_graph_site_id_format(Val(site_input))
    /\ is_relative_path(Val(site_input))
    /\ lookup_path' \in {Some("hostname:path"), site_input}
    /\ site_lookups' = site_lookups + 1
    /\ spc' = "lookup"
    /\ UNCHANGED <<site_action, site_input, SHAREPOINT_DEFAULT_SITE_ID,
                   target_site_id, site_requests, site_result>>
    /\ UNCHANGED <<pagedVars, resolverVars, dynVars, clientVars, notSiteVars>>

\* any other input is looked up as it is
SiteLookupPath ==
    /\ spc = "start"
    /\ site_input # None
    /\ ~is_valid_graph_site_id_format(Val(site_input))
    /\ ~is_relative_path(Val(site_input))
    /\ lookup_path' = site_input
    /\ spc' = "lookup"
    /\ UNCHANGED <<site_action, site_input, SHAREPOINT_DEFAULT_SITE_ID,
                   target_site_id, site_lookups, site_requests, site_result>>
    /\ UNCHANGED <<pagedVars, resolverVars, dynVars, clientVars, notSiteVars>>

\* GET /sites/{lookup_path} answers with an 'id'
SiteLookupFound ==
    /\ spc = "lookup"
    /\ target_site_id' = Some(NamedSite)
    /\ site_lookups' = site_lookups + 1
    /\ spc' = "resolved"
    /\ UNCHANGED <<site_action, site_input, SHAREPOINT_DEFAULT_SITE_ID, lookup_path,
                   site_requests, site_result>>
    /\ UNCHANGED <<pagedVars, resolverVars, dynVars, clientVars, notSiteVars>>

\* GET /sites/{lookup_path} fails, or its answer has no 'id': the exception is
\* logged and the function goes on
SiteLookupFails ==
    /\ spc = "lookup"
    /\ site_lookups' = site_lookups + 1
    /\ spc' = "fallback"
    /\ UNCHANGED <<site_action, site_input, SHAREPOINT_DEFAULT_SITE_ID, lookup_path,
                   target_site_id, site_requests, site_result>>
    /\ UNCHANGED <<pagedVars, resolverVars, dynVars, clientVars, notSiteVars>>

\* the configured default site has the format of a Graph site ID
SiteUsesDefault ==
    /\ spc = "fallback"
    /\ SHAREPOINT_DEFAULT_SITE_ID # None
    /\ is_valid_graph_site_id_format(Val(SHAREPOINT_DEFAULT_SITE_ID))
    /\ target_site_id' = Some(DefaultSite)
    /\ spc' = "resolved"
    /\ UNCHANGED <<site_action, site_input, SHAREPOINT_DEFAULT_SITE_ID, lookup_path,
                   site_lookups, site_requests, site_result>>
    /\ UNCHANGED <<pagedVars, resolverVars, dynVars, clientVars, notSiteVars>>

\* no usable default: GET /sites/root answers with an 'id'
SiteRootFound ==
    /\ spc = "fallback"
    /\ IF SHAREPOINT_DEFAULT_SITE_ID = None THEN TRUE
       ELSE ~is_valid_graph_site_id_format(Val(SHAREPOINT_DEFAULT_SITE_ID))
    /\ target_site_id' = Some(RootSite)
    /\ site_lookups' = site_lookups + 1
    /\ spc' = "resolved"
    /\ UNCHANGED <<site_action, site_input, SHAREPOINT_DEFAULT_SITE_ID, lookup_path,
                   site_requests, site_result>>
    /\ UNCHANGED <<pagedVars, resolverVars, dynVars, clientVars, notSiteVars>>

\* GET /sites/root fails or has no 'id': ValueError, the handler returns an error
SiteRootFails ==
    /\ spc = "fallback"
    /\ IF SHAREPOINT_DEFAULT_SITE_ID = None THEN TRUE
       ELSE ~is_valid_graph_site_id_format(Val(SHAREPOINT_DEFAULT_SITE_ID))
    /\ site_result' = Some(SiteError(TokenValueError))
    /\ site_lookups' = site_lookups + 1
    /\ spc' = "done"
    /\ UNCHANGED <<site_action, site_input, SHAREPOINT_DEFAULT_SITE_ID, lookup_path,
                   target_site_id, site_requests>>
    /\ UNCHANGED <<pagedVars, resolverVars, dynVars, clientVars, notSiteVars>>

\* client.delete raises before the request is sent: no token
SiteDeleteNotSent ==
    /\ spc = "resolved"
    /\ site_result' = Some(SiteError(TokenValueError))
    /\ spc' = "done"
    /\ UNCHANGED <<site_action, site_input, SHAREPOINT_DEFAULT_SITE_ID, lookup_path,
                   target_site_id, site_lookups, site_requests>>
    /\ UNCHANGED <<pagedVars, resolverVars, dynVars, clientVars, notSiteVars>>

\* DELETE /sites/{target_site_id}/lists/{list}[/items/{item}] is sent
SiteDelete ==
    /\ spc = "resolved"
    /\ site_requests' = Append(site_requests,
                               [method |-> "DELETE", site |-> Val(target_site_id),
                                what |-> IF site_action = "delete_list" THEN "list"
                                         ELSE "list_item"])
    /\ spc' = "awaiting"
    /\ UNCHANGED <<site_action, site_input, SHAREPOINT_DEFAULT_SITE_ID, lookup_path,
                   target_site_id, site_lookups, site_result>>
    /\ UNCHANGED <<pagedVars, resolverVars, dynVars, clientVars, notSiteVars>>

\* the upstream answers 2xx: status success with the response's status code
SiteDeleteOK ==
    /\ spc = "awaiting"
    /\ site_result' = Some(SiteSuccess(NoContentStatus))
    /\ spc' = "done"
    /\ UNCHANGED <<site_action, site_input, SHAREPOINT_DEFAULT_SITE_ID, lookup_path,
                   target_site_id, site_lookups, site_requests>>
    /\ UNCHANGED <<pagedVars, resolverVars, dynVars, clientVars, notSiteVars>>

\* the DELETE fails
SiteDeleteFail ==
    /\ spc = "awaiting"
    /\ \E f \in RequestFailures :
         site_result' = Some(SiteError(client_request_raises(f)))
    /\ spc' = "done"
    /\ UNCHANGED <<site_action, site_input, SHAREPOINT_DEFAULT_SITE_ID, lookup_path,
                   target_site_id, site_lookups, site_requests>>
    /\ UNCHANGED <<pagedVars, resolverVars, dynVars, clientVars, notSiteVars>>

NextSite ==
    \/ SiteNoInput
    \/ SiteIdFormat
    \/ SiteHostname
    \/ SiteLookupPath
    \/ SiteLookupFound
    \/ SiteLookupFails
    \/ SiteUsesDefault
    \/ SiteRootFound
    \/ SiteRootFails
    \/ SiteDeleteNotSent
    \/ SiteDelete
    \/ SiteDeleteOK
    \/ SiteDeleteFail

\* ---------------------------------------------------------------------------
\* upload_document and upload_file
\* ---------------------------------------------------------------------------
MiB == 1024 * 1024
SimpleUploadLimit == 4 * MiB
chunk_size == 5 * MiB

\* len(content_bytes): the sizes around every multiple of 1 MiB
FileSizes == {n \in {k * MiB + d : k \in 0..MaxFileMiB, d \in {0 - 1, 0, 1}} : n >= 0}

\* file_size_bytes <= 4 * 1024 * 1024, and not (file_size_mb > 4.0)
simple_upload(size) == size <= SimpleUploadLimit

\* client.put(upload_url, data=content_bytes, headers={"Content-Type": ...})
content_kwargs ==
    [body |-> "data",
     headers |-> [given |-> "dict", Authorization |-> None,
                  ContentType |-> Some("application/octet-stream")]]

\* client.post(session_url, json_data=session_body)
session_kwargs ==
    [body |-> "json_data",
     headers |-> [given |-> "absent", Authorization |-> None, ContentType |-> None]]

\* what the handlers return
UploadError(e) == [status |-> "error", http_status |-> handle_api_error(e).http_status]
UploadSuccess == [status |-> "success", http_status |-> None]

InitUpload ==
    /\ upload_service \in {"sharepoint", "onedrive"}
    /\ file_size_bytes \in FileSizes
    /\ upc = "start"
    /\ upload_requests = <<>>
    /\ upstream_failed = FALSE
    /\ upload_result = None

\* SharePoint: _obtener_site_id_sp or _get_drive_id raises
UploadSiteOrDriveFails ==
    /\ upc = "start"
    /\ upload_service = "sharepoint"
    /\ upload_result' = Some(UploadError(ConnectionErr))
    /\ upstream_failed' = TRUE
    /\ upc' = "done"
    /\ UNCHANGED <<upload_service, file_size_bytes, upload_requests>>
    /\ UNCHANGED <<pagedVars, resolverVars, dynVars, clientVars, notUploadVars>>

\* no access token: the client raises before any request
UploadNoToken ==
    /\ upc = "start"
    /\ upload_result' = Some(UploadError(TokenValueError))
    /\ upstream_failed' = TRUE
    /\ upc' = "done"
    /\ UNCHANGED <<upload_service, file_size_bytes, upload_requests>>
    /\ UNCHANGED <<pagedVars, resolverVars, dynVars, clientVars, notUploadVars>>

\* at most 4 MiB: one PUT of the whole content
UploadSimplePut ==
    /\ upc = "start"
    /\ simple_upload(file_size_bytes)
    /\ raises_before_send(content_kwargs) = None
    /\ upload_requests' = Append(upload_requests,
                                 [method |-> "PUT", what |-> "content",
                                  length |-> file_size_bytes])
    /\ upc' = "awaiting"
    /\ UNCHANGED <<upload_service, file_size_bytes, upstream_failed, upload_result>>
    /\ UNCHANGED <<pagedVars, resolverVars, dynVars, clientVars, notUploadVars>>

\* the upstream answers the PUT with 2xx
UploadSimpleOK ==
    /\ upc = "awaiting"
    /\ upload_result' = Some(UploadSuccess)
    /\ upc' = "done"
    /\ UNCHANGED <<upload_service, file_size_bytes, upload_requests, upstream_failed>>
    /\ UNCHANGED <<pagedVars, resolverVars, dynVars, clientVars, notUploadVars>>

\* the PUT fails
UploadSimpleFail ==
    /\ upc = "awaiting"
    /\ \E f \in RequestFailures :
         upload_result' = Some(UploadError(client_request_raises(f)))
    /\ upstream_failed' = TRUE
    /\ upc' = "done"
    /\ UNCHANGED <<upload_service, file_size_bytes, upload_requests>>
    /\ UNCHANGED <<pagedVars, resolverVars, dynVars, clientVars, notUploadVars>>

\* more than 4 MiB: the createUploadSession POST passes json_data=, which the
\* client hands to Session.request; the call raises before a request is sent,
\* and the chunk loop that follows it in the handler is not reached
UploadSessionNotCreated ==
    /\ upc = "start"
    /\ ~simple_upload(file_size_bytes)
    /\ raises_before_send(session_kwargs) # None
    /\ upload_result' = Some(UploadError(Val(raises_before_send(session_kwargs))))
    /\ upc' = "done"
    /\ UNCHANGED <<upload_service, file_size_bytes, upload_requests, upstream_failed>>
    /\ UNCHANGED <<pagedVars, resolverVars, dynVars, clientVars, notUploadVars>>

NextUpload ==
    \/ UploadSiteOrDriveFails
    \/ UploadNoToken
    \/ UploadSimplePut
    \/ UploadSimpleOK
    \/ UploadSimpleFail
    \/ UploadSessionNotCreated

\* ---------------------------------------------------------------------------
\* memory_save, memory_get and memory_delete
\* ---------------------------------------------------------------------------
Sessions == {"s1", "s2"}
Claves == {"k1", "k2"}

\* the values a caller saves, and json.dumps / json.loads on them
Valores == {[type |-> "int", repr |-> "1"], [type |-> "str", repr |-> "a"]}
json_dumps(v) == IF v.type = "str" THEN "\"" \o v.repr \o "\"" ELSE v.repr
IsJson(text) == \E v \in Valores : json_dumps(v) = text
json_loads(text) == CHOOSE v \in Valores : json_dumps(v) = text

\* the texts found in the Valor column
ValorTexts == {json_dumps(v) : v \in Valores} \cup {"x", ""}

\* json.loads(valor_str) if valor_str else None, and valor_str itself when it
\* is not JSON
decode(valor_str) ==
    IF valor_str = "" THEN None
    ELSE IF IsJson(valor_str) THEN Some(json_loads(valor_str))
    ELSE Some([type |-> "str", repr |-> valor_str])

ListItem(i, s, k, t) == [id |-> i, SessionID |-> s, Clave |-> k, Valor |-> t]

\* the lists the upstream may hold when the callers arrive
MemoryLists ==
    UNION {[1..n -> [SessionID : {"s1"}, Clave : Claves, Valor : {"1", "x"}]
                    \cup [SessionID : {"s2"}, Clave : {"k1"}, Valor : {""}]] :
           n \in 0..MaxListItems}
WithIds(l) == [i \in DOMAIN l |-> ListItem(i, l[i].SessionID, l[i].Clave, l[i].Valor)]

\* the calls: memory_save needs session_id, clave and valor; the others take
\* session_id and optionally clave
MemoryCalls ==
    {[op |-> "none", session_id |-> "", clave |-> None, valor |-> None]} \cup
    [op : {"memory_save"}, session_id : {"s1"}, clave : {Some("k1")},
     valor : {Some(v) : v \in Valores}] \cup
    [op : {"memory_get", "memory_delete"}, session_id : {"s1"},
     clave : {None, Some("k1")}, valor : {None}]

\* $filter=fields/SessionID eq '..' [and fields/Clave eq '..'], applied by the
\* upstream to the list
filter_query(l, session_id, clave) ==
    SelectSeq(l, LAMBDA it : /\ it.SessionID = session_id
                             /\ IF clave = None THEN TRUE ELSE it.Clave = Val(clave))

\* max_items_total of list_list_items
capped(items, max_total) ==
    IF max_total = None THEN items
    ELSE SubSeq(items, 1, IF Len(items) < Val(max_total) THEN Len(items) ELSE Val(max_total))

\* add_list_item and update_list_item: client.post / client.patch with json_data=
write_kwargs ==
    [body |-> "json_data",
     headers |-> [given |-> "dict", Authorization |-> None, ContentType |-> None]]

\* results of the handlers
MemError == [status |-> "error", data |-> None, mapping |-> <<>>, count |-> 0,
             details |-> <<>>]
MemSuccess(d) == [status |-> "success", data |-> d, mapping |-> <<>>, count |-> 0,
                  details |-> <<>>]
MemMapping(m) == [status |-> "success", data |-> None, mapping |-> m, count |-> 0,
                  details |-> <<>>]
MemDeleted(n, errs) ==
    [status |-> IF errs # <<>> THEN "partial_error" ELSE "success",
     data |-> None, mapping |-> <<>>, count |-> n, details |-> errs]

\* memory_get without clave: the first item of each Clave, in the order listed
first_per_clave(items) ==
    {<<k, decode(items[CHOOSE i \in DOMAIN items :
                         /\ items[i].Clave = k
                         /\ \A j \in 1..(i - 1) : items[j].Clave # k].Valor)>> :
      k \in {items[i].Clave : i \in DOMAIN items}}

\* memory_get's result for the items listed
get_result(items, clave) ==
    IF items = <<>> THEN (IF clave = None THEN MemMapping({}) ELSE MemSuccess(None))
    ELSE IF clave # None THEN MemSuccess(decode(items[1].Valor))
    ELSE MemMapping(first_per_clave(items))

\* a memory_save for the same session_id and clave has returned
SaveReturned(p, call) ==
    \E q \in Callers \ {p} :
        /\ mem_op[q] = "memory_save"
        /\ mpc[q] = "done"
        /\ mem_params[q].session_id = call.session_id
        /\ IF call.clave = None THEN TRUE ELSE mem_params[q].clave = call.clave

InitMemory ==
    /\ memory_list \in {WithIds(l) : l \in MemoryLists}
    /\ mem_op = [p \in Callers |-> "none"]
    /\ mem_params = [p \in Callers |-> [session_id |-> "", clave |-> None, valor |-> None]]
    /\ mpc = [p \in Callers |-> "idle"]
    /\ mem_items = [p \in Callers |-> <<>>]
    /\ deleted_count = [p \in Callers |-> 0]
    /\ errors_on_delete = [p \in Callers |-> <<>>]
    /\ delete_attempts = [p \in Callers |-> <<>>]
    /\ env_failed = [p \in Callers |-> FALSE]
    /\ saved_before = [p \in Callers |-> FALSE]
    /\ mem_result = [p \in Callers |-> None]

MemUnchangedLocals ==
    UNCHANGED <<mem_op, mem_params, mem_items, deleted_count, errors_on_delete,
                delete_attempts, saved_before>>

\* a caller calls one of the handlers
MemCall(p) ==
    /\ mpc[p] = "idle"
    /\ \E call \in MemoryCalls :
         /\ call.op # "none"
         /\ mem_op' = [mem_op EXCEPT ![p] = call.op]
         /\ mem_params' = [mem_params EXCEPT ![p] =
                             [session_id |-> call.session_id, clave |-> call.clave,
                              valor |-> call.valor]]
         /\ saved_before' = [saved_before EXCEPT ![p] = SaveReturned(p, call)]
    /\ mpc' = [mpc EXCEPT ![p] = "start"]
    /\ UNCHANGED <<memory_list, mem_items, deleted_count, errors_on_delete,
                   delete_attempts, env_failed, mem_result>>
    /\ UNCHANGED <<pagedVars, resolverVars, dynVars, clientVars, notMemoryVars>>

\* _obtener_site_id_sp raises, memory_save cannot make sure that the list exists,
\* or the listing of memory_get / memory_delete fails: the handler returns an error
MemFailsEarly(p) ==
    /\ mpc[p] = "start"
    /\ mem_result' = [mem_result EXCEPT ![p] = Some(MemError)]
    /\ env_failed' = [env_failed EXCEPT ![p] = TRUE]
    /\ mpc' = [mpc EXCEPT ![p] = "done"]
    /\ UNCHANGED memory_list
    /\ MemUnchangedLocals
    /\ UNCHANGED <<pagedVars, resolverVars, dynVars, clientVars, notMemoryVars>>

\* memory_save lists the existing item (max_items_total 1)
SaveLookup(p) ==
    /\ mpc[p] = "start"
    /\ mem_op[p] = "memory_save"
    /\ LET items == capped(filter_query(memory_list, mem_params[p].session_id,
                                        mem_params[p].clave), Some(1))
       IN /\ mem_items' = [mem_items EXCEPT ![p] = items]
          /\ mpc' = [mpc EXCEPT ![p] = IF items # <<>> THEN "found" ELSE "absent"]
    /\ UNCHANGED <<memory_list, mem_op, mem_params, deleted_count, errors_on_delete,
                   delete_attempts, env_failed, saved_before, mem_result>>
    /\ UNCHANGED <<pagedVars, resolverVars, dynVars, clientVars, notMemoryVars>>

\* the listing of memory_save fails: item_id stays None and the add branch is taken
SaveLookupFails(p) ==
    /\ mpc[p] = "start"
    /\ mem_op[p] = "memory_save"
    /\ env_failed' = [env_failed EXCEPT ![p] = TRUE]
    /\ mpc' = [mpc EXCEPT ![p] = "absent"]
    /\ UNCHANGED <<memory_list, mem_result>>
    /\ MemUnchangedLocals
    /\ UNCHANGED <<pagedVars, resolverVars, dynVars, clientVars, notMemoryVars>>

\* update_list_item (item found) or add_list_item (none found): the client call
\* raises before a request is sent, the handler returns the error; the list is
\* not written
SaveWriteNotSent(p) ==
    /\ mpc[p] \in {"found", "absent"}
    /\ raises_before_send(write_kwargs) # None
    /\ mem_result' = [mem_result EXCEPT ![p] = Some(MemError)]
    /\ mpc' = [mpc EXCEPT ![p] = "done"]
    /\ UNCHANGED <<memory_list, env_failed>>
    /\ MemUnchangedLocals
    /\ UNCHANGED <<pagedVars, resolverVars, dynVars, clientVars, notMemoryVars>>

\* memory_get lists the items (one if clave is given, all otherwise) and returns
GetList(p) ==
    /\ mpc[p] = "start"
    /\ mem_op[p] = "memory_get"
    /\ LET items == capped(filter_query(memory_list, mem_params[p].session_id,
                                        mem_params[p].clave),
                           IF mem_params[p].clave = None THEN None ELSE Some(1))
       IN /\ mem_items' = [mem_items EXCEPT ![p] = items]
          /\ mem_result' = [mem_result EXCEPT ![p] =
                              Some(get_result(items, mem_params[p].clave))]
    /\ mpc' = [mpc EXCEPT ![p] = "done"]
    /\ UNCHANGED <<memory_list, mem_op, mem_params, deleted_count, errors_on_delete,
                   delete_attempts, env_failed, saved_before>>
    /\ UNCHANGED <<pagedVars, resolverVars, dynVars, clientVars, notMemoryVars>>

\* memory_delete lists the items; without items it returns success
DeleteList(p) ==
    /\ mpc[p] = "start"
    /\ mem_op[p] = "memory_delete"
    /\ LET items == filter_query(memory_list, mem_params[p].session_id,
                                 mem_params[p].clave)
       IN /\ mem_items' = [mem_items EXCEPT ![p] = items]
          /\ mpc' = [mpc EXCEPT ![p] = IF items = <<>> THEN "done" ELSE "deleting"]
          /\ mem_result' = [mem_result EXCEPT ![p] =
                              IF items = <<>> THEN Some(MemDeleted(0, <<>>)) ELSE None]
    /\ UNCHANGED <<memory_list, mem_op, mem_params, deleted_count, errors_on_delete,
                   delete_attempts, env_failed, saved_before>>
    /\ UNCHANGED <<pagedVars, resolverVars, dynVars, clientVars, notMemoryVars>>

\* the item the loop of memory_delete is at
current_item(p) == mem_items[p][Len(delete_attempts[p]) + 1]
InList(i) == \E j \in DOMAIN memory_list : memory_list[j].id = i

\* what the loop does after a failed deletion
loop_after_failure_stops(p) == "done"
loop_after_failure(p) ==
    IF Len(delete_attempts[p]) + 1 = Len(mem_items[p]) THEN "done" ELSE "deleting"

\* what memory_delete returns
delete_result(n, errs) == MemDeleted(n, errs)

\* delete_list_item succeeds: the item leaves the list
DeleteItemOK(p) ==
    /\ mpc[p] = "deleting"
    /\ InList(current_item(p).id)
    /\ memory_list' = SelectSeq(memory_list, LAMBDA it : it.id # current_item(p).id)
    /\ delete_attempts' = [delete_attempts EXCEPT ![p] = Append(@, current_item(p).id)]
    /\ deleted_count' = [deleted_count EXCEPT ![p] = @ + 1]
    /\ LET last == Len(delete_attempts[p]) + 1 = Len(mem_items[p])
       IN /\ mpc' = [mpc EXCEPT ![p] = IF last THEN "done" ELSE "deleting"]
          /\ mem_result' = [mem_result EXCEPT ![p] =
                              IF last THEN Some(delete_result(deleted_count[p] + 1,
                                                              errors_on_delete[p]))
                              ELSE None]
    /\ UNCHANGED <<mem_op, mem_params, mem_items, errors_on_delete, env_failed,
                   saved_before>>
    /\ UNCHANGED <<pagedVars, resolverVars, dynVars, clientVars, notMemoryVars>>

\* delete_list_item returns an error (the item is gone already, or the request
\* fails): the failure is recorded and the loop goes on
DeleteItemFails(p) ==
    /\ mpc[p] = "deleting"
    /\ delete_attempts' = [delete_attempts EXCEPT ![p] = Append(@, current_item(p).id)]
    /\ errors_on_delete' = [errors_on_delete EXCEPT ![p] = Append(@, current_item(p).id)]
    /\ env_failed' = [env_failed EXCEPT ![p] = @ \/ InList(current_item(p).id)]
    /\ mpc' = [mpc EXCEPT ![p] = loop_after_failure(p)]
    /\ mem_result' = [mem_result EXCEPT ![p] =
                        IF loop_after_failure(p) = "done"
                          THEN Some(delete_result(deleted_count[p],
                                                  Append(errors_on_delete[p],
                                                         current_item(p).id)))
                          ELSE None]
    /\ UNCHANGED <<memory_list, mem_op, mem_params, mem_items, deleted_count,
                   saved_before>>
    /\ UNCHANGED <<pagedVars, resolverVars, dynVars, clientVars, notMemoryVars>>

NextMemory ==
    \E p \in Callers :
        \/ MemCall(p)
        \/ MemFailsEarly(p)
        \/ SaveLookup(p)
        \/ SaveLookupFails(p)
        \/ SaveWriteNotSent(p)
        \/ GetList(p)
        \/ DeleteList(p)
        \/ DeleteItemOK(p)
        \/ DeleteItemFails(p)

SpecResolver == InitResolver /\ [][NextResolver]_vars

\* an item action is called; nothing else is going on
SpecItemAction == InitItemAction /\ [][NextItemAction]_vars

\* a site-bound SharePoint action is called; nothing else is going on
InitSiteAction ==
    PagedIdle /\ ResolverIdle /\ DynIdle /\ ClientIdle /\ ItemIdle /\ UploadIdle /\ MemoryIdle /\
    InitSite
SpecSite == InitSiteAction /\ [][NextSite]_vars

\* an upload is called; nothing else is going on
InitUploadAction ==
    PagedIdle /\ ResolverIdle /\ DynIdle /\ ClientIdle /\ ItemIdle /\ SiteIdle /\ MemoryIdle /\
    InitUpload
SpecUpload == InitUploadAction /\ [][NextUpload]_vars

\* callers use the session memory; nothing else is going on
InitMemoryCalls ==
    PagedIdle /\ ResolverIdle /\ DynIdle /\ ClientIdle /\ ItemIdle /\ SiteIdle /\ UploadIdle /\
    InitMemory
SpecMemory == InitMemoryCalls /\ [][NextMemory]_vars

\* profile_get_my_direct_reports is called; nothing else is going on
InitDirectReports == InitReports /\ ResolverIdle /\ DynIdle /\ ClientIdle /\ ActionsIdle
SpecReports == InitDirectReports /\ [][NextReports]_vars

\* a request to /dynamics arrives; nothing else is going on
InitEndpoint == PagedIdle /\ ResolverIdle /\ ClientIdle /\ ActionsIdle /\ InitDynamics
SpecDynamics == InitEndpoint /\ [][NextDynamics]_vars

\* AuthenticatedHttpClient.request is called; nothing else is going on
InitRequest == PagedIdle /\ ResolverIdle /\ DynIdle /\ ActionsIdle /\ InitClient
SpecClient == InitRequest /\ [][NextClient]_vars

Init == InitPaged /\ ResolverIdle /\ DynIdle /\ ClientIdle /\ ActionsIdle
Next == NextPaged
Spec == Init /\ [][Next]_vars

\* ---------------------------------------------------------------------------
\* Properties of the paginated fetch
\* ---------------------------------------------------------------------------
Returned == result # None
Succeeded == IF result = None THEN FALSE ELSE Val(result).status = "success"
Failed == IF result = None THEN FALSE ELSE Val(result).status = "error"
P_cap == max_pages_to_fetch(helper, settings_MAX_PAGING_PAGES)
LastValueKind == IF last_response = None THEN "none" ELSE Val(last_response).value.t
LastNextLink == IF last_response = None THEN None ELSE Val(last_response).next_link

\* C1: with a bounded max_items_total = N the accumulator never holds more
\* than N items, and a successful result contains at most N items.
C1_AtMostMaxItems ==
    max_items_total # None =>
        /\ Len(all_items) <= Val(max_items_total)
        /\ (Succeeded => Len(Val(result).value) <= Val(max_items_total))

\* the cap fell inside a batch: the upstream served more items than were kept
C1_Witness ==
    /\ Succeeded
    /\ max_items_total # None
    /\ Val(max_items_total) > 0
    /\ Len(Val(result).value) = Val(max_items_total)
    /\ served > Val(max_items_total)

\* C2: one call sends at most max_pages GET requests and reports
\* pages_processed <= max_pages, whatever the upstream answers.
C2_AtMostMaxPages ==
    /\ requests_sent <= P_cap
    /\ page_count <= P_cap
    /\ (Succeeded => Val(result).pages_processed <= P_cap)

\* the page cap ended a call while the upstream was still handing out cursors
C2_Witness ==
    /\ Succeeded
    /\ requests_sent = P_cap
    /\ Truthy(current_url)
    /\ (IF max_items_total = None THEN TRUE ELSE Len(all_items) < Val(max_items_total))

\* the access token for a page could not be obtained (nothing was sent for it)
TokenFailed == requests_sent < page_count

\* C3 as stated: when no response carries a next-cursor, a call that has
\* returned has sent exactly one request, for every max_items_total (0 and
\* unbounded included) and every page cap; read with every attempted request
\* actually sent (the access token obtained).
C3_ExactlyOneRequest ==
    (pc = "done" /\ ~cursor_seen /\ ~TokenFailed) => requests_sent = 1

\* C3 amended: when no response carries a next-cursor, at most one request is
\* sent and the loop is never re-entered; a returned call has sent exactly
\* one request unless max_items_total is 0 or the token was not obtained, and
\* none in those two cases.
C3_AtMostOneRequest ==
    ~cursor_seen =>
        /\ requests_sent <= 1
        /\ (pc = "loop" => page_count = 0)
        /\ (pc = "done" =>
              (requests_sent = 1 <=> (max_items_total # Some(0) /\ ~TokenFailed)))

\* a call with an unbounded item cap ended after one cursor-less page
C3_Witness ==
    /\ Succeeded
    /\ ~cursor_seen
    /\ max_items_total = None
    /\ requests_sent = 1
    /\ Len(all_items) > 0

\* C4: a response whose 'value' is not a list ends the call with status
\* 'success' and exactly the items accumulated before that page; no further
\* request is sent.
C4_NonListValueStops ==
    [][(pc = "awaiting" /\ LastValueKind' = "other") =>
          /\ pc' = "done"
          /\ Succeeded'
          /\ Val(result').value = all_items
          /\ Val(result').total_retrieved = Len(all_items)
          /\ requests_sent' = requests_sent]_vars

\* a non-list 'value' arrived on a later page, after items had been accumulated
C4_Witness ==
    /\ pc = "done"
    /\ LastValueKind = "other"
    /\ page_count >= 2
    /\ Succeeded
    /\ Len(Val(result).value) > 0

\* C5 as stated: a failed request for page k (transport error or non-2xx)
\* ends the call: k requests were sent in all, and the result is an error
\* envelope with the upstream status code and the upstream message and without
\* any accumulated item.
C5_FailureAborts ==
    (IF last_failure = None THEN FALSE ELSE Val(last_failure) \in RequestFailures) =>
        /\ pc = "done"
        /\ Failed
        /\ requests_sent = page_count
        /\ Val(result).value = None
        /\ Val(result).total_retrieved = 0
        /\ (Val(last_failure).type = "HTTPError" =>
              /\ Val(result).http_status = Val(last_failure).status
              /\ (Val(last_failure).body = "json_message" =>
                    Val(result).details = Some("error.message")))

\* C6: the first request goes to the start URL with the initial query
\* parameters; every later request goes to the cursor of the preceding
\* response and carries no parameters, also when that cursor is the start URL.
C6_CursorVerbatim ==
    pc = "awaiting" =>
        IF requests_sent = 1
          THEN Val(request) = [url |-> url_base, params |-> query_api_params_initial]
          ELSE /\ Val(request).url = Val(LastNextLink)
               /\ Val(request).params = None

\* a later request whose cursor is the start URL itself
C6_Witness ==
    /\ pc = "awaiting"
    /\ requests_sent >= 2
    /\ Val(request).url = url_base

\* C10 as stated: a response without a 'value' field ends the call with
\* status 'success'; its next-cursor is not followed.
C10_AbsentValueStops ==
    LastValueKind = "absent" => (pc = "done" /\ Succeeded)

\* the concatenation, in page order, of the batches the upstream has returned
Concatenation == [i \in 1..served |-> i]

\* C11: once the accumulator has reached a bounded max_items_total, no
\* further request is sent, whatever cursor the last response carried.
C11_NoRequestAfterCap ==
    [][(IF max_items_total = None THEN FALSE
        ELSE Len(all_items) >= Val(max_items_total)) =>
          requests_sent' = requests_sent]_vars

\* the cap was reached exactly at the end of a batch that carried a cursor,
\* with pages still allowed, and the call returned
C11_Witness ==
    /\ Succeeded
    /\ max_items_total # None
    /\ Val(max_items_total) > 0
    /\ Len(all_items) = Val(max_items_total)
    /\ served = Val(max_items_total)
    /\ Truthy(LastNextLink)
    /\ requests_sent < P_cap

\* C12: the items of a successful result are a prefix of the concatenation
\* of the batches received, in order and without gaps or repetitions; the
\* prefix is the whole concatenation unless the item cap cut it.
C12_PrefixOfBatches ==
    Succeeded =>
        LET value == Val(result).value IN
        /\ Len(value) <= served
        /\ value = SubSeq(Concatenation, 1, Len(value))
        /\ IF max_items_total = None THEN Len(value) = served
           ELSE Len(value) = served \/ Len(value) = Val(max_items_total)

\* items of two batches were returned and the cap fell inside the second batch
C12_Witness ==
    /\ Succeeded
    /\ requests_sent = 2
    /\ max_items_total = Some(MaxBatch + 1)
    /\ Len(Val(result).value) = MaxBatch + 1
    /\ served = 2 * MaxBatch

\* C13: in a successful result total_retrieved, and '@odata.count' where the
\* helper returns it, equal the number of items returned.
C13_CountsMatchItems ==
    Succeeded =>
        /\ Val(result).total_retrieved = Len(Val(result).value)
        /\ IF Val(result).odata_count = None THEN TRUE
           ELSE Val(Val(result).odata_count) = Len(Val(result).value)

\* a result with '@odata.count' whose item count differs from its page count
C13_Witness ==
    /\ Succeeded
    /\ Val(result).odata_count = Some(MaxBatch)
    /\ Val(result).pages_processed = 1
    /\ Len(Val(result).value) = MaxBatch

\* C14: in a successful result pages_processed is the number of GET requests
\* the call sent.
C14_PagesAreRequests ==
    Succeeded => Val(result).pages_processed = requests_sent

\* a successful call that sent more than one request
C14_Witness ==
    /\ Succeeded
    /\ requests_sent >= 2
    /\ Val(result).pages_processed = requests_sent

\* the call is followed to its end: the interpreter takes its next step, and
\* every request sent is answered or fails
SpecLive == Init /\ [][Next]_vars /\ WF_vars(Next)

\* C15: every call of a paginated fetch returns.
C15_Terminates == <>(pc = "done")

\* an unbounded call returned at the page cap although every response had
\* carried a cursor back to the start URL and no batch held an item
C15_Witness ==
    /\ pc = "done"
    /\ max_items_total = None
    /\ settings_MAX_PAGING_PAGES = Some(MaxPageCap)
    /\ requests_sent = MaxPageCap
    /\ served = 0
    /\ current_url = Some(url_base)

\* ---------------------------------------------------------------------------
\* Properties of profile_get_my_direct_reports
\* ---------------------------------------------------------------------------
\* C22 as stated: a successful result holds at most `top` items in data, and
\* its total_retrieved is the number of items in data.
C22_TotalIsDataLength ==
    (helper = "profile_get_my_direct_reports" /\ Succeeded) =>
        /\ Len(Val(result).value) <= Val(max_items_total)
        /\ Val(result).total_retrieved = Len(Val(result).value)

\* ---------------------------------------------------------------------------
\* Properties of the item resolvers
\* ---------------------------------------------------------------------------
Classifying == rpc \in {"awaiting", "done"}

\* C7 as stated: a string that contains '/' is classified as a path and
\* never as an ID, whatever else it contains or starts with.
C7_SlashMeansPath ==
    (Classifying /\ Contains(item_path_or_id, "/")) => classified = "path"

\* the ID rule of spec section 3.2: the reserved separator, or a long string
\* without '/' and '.'
SeparatorOrLong(s) ==
    \/ \E i \in DOMAIN s : s[i] = "!"
    \/ /\ Len(s) > IdLengthThreshold
       /\ \A i \in DOMAIN s : s[i] \notin {"/", "."}

HasDriveItemPrefix(s) ==
    /\ Len(s) >= Len(driveItem_)
    /\ \A i \in DOMAIN driveItem_ : s[i] = driveItem_[i]

\* C8 as stated: a string is returned unchanged as an ID, without a request,
\* exactly if it contains '!' or is longer than 40 with neither '/' nor '.';
\* every other string goes through a metadata-lookup request.
C8_IdIffSeparatorOrLong ==
    Classifying =>
        /\ classified = "id" <=> SeparatorOrLong(item_path_or_id)
        /\ classified = "id" => (resolved = Some(IdResult(item_path_or_id)) /\ lookup = None)
        /\ (classified = "path" /\ item_path_or_id # <<>> /\ rpc = "awaiting") => lookup # None

\* C8 amended: ... or starts with 'driveItem_'; every other string is handed
\* to the metadata lookup, and an ID is returned for it only out of the answer
\* to a metadata GET, which is never sent for the empty string.
C8_IdIffSeparatorLongOrPrefix ==
    Classifying =>
        /\ classified \in {"id", "path"}
        /\ classified = "id" <=>
             (SeparatorOrLong(item_path_or_id) \/ HasDriveItemPrefix(item_path_or_id))
        /\ classified = "id" => (resolved = Some(IdResult(item_path_or_id)) /\ lookup = None)
        /\ classified = "path" =>
             /\ rpc = "awaiting" => lookup # None
             /\ lookup # None => item_path_or_id # <<>>
             /\ (IF resolved = None THEN FALSE ELSE Val(resolved).kind = "id") =>
                   (lookup # None /\ Val(resolved).id \in UpstreamIds)

\* a short string with the prefix and without '!' was returned as an ID
C8_Witness ==
    /\ rpc = "done"
    /\ classified = "id"
    /\ HasDriveItemPrefix(item_path_or_id)
    /\ ~SeparatorOrLong(item_path_or_id)
    /\ resolved = Some(IdResult(item_path_or_id))

\* C9 as stated: the ID that a lookup returned for a path, given to the same
\* resolver, is classified as an ID and returned itself without a lookup.
C9_RoundTrip ==
    (round = 2 /\ Classifying) =>
        /\ classified = "id"
        /\ resolved = Some(IdResult(Val(path_id)))
        /\ lookup = None

\* C24 as stated: whenever the resolver classifies its input as a path, the
\* metadata request it triggers addresses the item through the path endpoint
\* (root or root:/<path>), never through items/<id>.
C24_PathLookupUsesPathEndpoint ==
    (classified = "path" /\ lookup # None) =>
        Val(lookup).kind \in {"root", "root:/"}

\* ---------------------------------------------------------------------------
\* Properties of the item actions
\* ---------------------------------------------------------------------------
LookupFailed ==
    IF resolved = None THEN FALSE
    ELSE classified = "path" /\ Val(resolved).kind # "id"

\* C23: if the path-to-ID lookup fails, the action returns an error result, the
\* resolver's own error dict whenever the resolver returned one, and no DELETE,
\* PATCH or POST request is sent
C23_LookupFailureStopsAction ==
    LookupFailed =>
        /\ item_requests = <<>>
        /\ ipc \in {"resolving", "done"}
        /\ ipc = "done" =>
             /\ Val(item_result).kind = "error"
             /\ Val(resolved).kind = "error" => item_result = resolved

\* a lookup failed, the handler returned, and handlers of the same service do
\* send their request when the resolver gives an ID
C23_Witness ==
    /\ LookupFailed
    /\ ipc = "done"
    /\ item_result = resolved
    /\ Val(resolved).http_status = Some(NotFoundStatus)
    /\ item_action \in {"delete_item", "remove_item_permissions"}

\* ---------------------------------------------------------------------------
\* Properties of the site resolution
\* ---------------------------------------------------------------------------
\* C25 as stated: when the parameters name a site, every request of the action
\* addresses that site; none addresses the configured default site or the
\* tenant root site.
C25_NamedSiteOrError ==
    site_input # None =>
        \A i \in DOMAIN site_requests : site_requests[i].site = NamedSite

\* ---------------------------------------------------------------------------
\* Properties of the uploads
\* ---------------------------------------------------------------------------
ChunkRanges == SelectSeq(upload_requests, LAMBDA r : r.what = "chunk")

\* C26 as stated, the part about coverage: a session upload (size above 4 MiB)
\* in which neither the credential nor the upstream failed a request has sent
\* chunk PUTs, each of at most 5 MiB, whose lengths add up to the file size.
C26_ChunksCoverFile ==
    (upc = "done" /\ ~simple_upload(file_size_bytes) /\ ~upstream_failed) =>
        /\ ChunkRanges # <<>>
        /\ \A i \in DOMAIN ChunkRanges : ChunkRanges[i].length <= chunk_size
        /\ Len(ChunkRanges) * chunk_size >= file_size_bytes

\* ---------------------------------------------------------------------------
\* Properties of the session memory
\* ---------------------------------------------------------------------------
ItemsOfPair(session_id, clave) == filter_query(memory_list, session_id, Some(clave))

AtMostOnePerPair ==
    \A s \in Sessions, k \in Claves : Len(ItemsOfPair(s, k)) <= 1

Alone(p) == \A q \in Callers \ {p} : mem_op[q] = "none"

SaveDone(p) == mem_op[p] = "memory_save" /\ mpc[p] = "done" /\ ~env_failed[p]

Entry(mapping, k) == {e \in mapping : e[1] = k}

DeleteDone(p) ==
    /\ mem_op[p] = "memory_delete"
    /\ mpc[p] = "done"
    /\ Val(mem_result[p]).status # "error"

ListedIds(p) == [i \in DOMAIN mem_items[p] |-> mem_items[p][i].id]
Failures(p) == {i \in DOMAIN delete_attempts[p] :
                  \E j \in DOMAIN errors_on_delete[p] :
                      errors_on_delete[p][j] = delete_attempts[p][i]}

\* C29: memory_delete sends a DELETE for every item it listed, also after a
\* failed deletion; it returns 'success' exactly if no deletion failed, and then
\* no listed item is in the list; otherwise it returns 'partial_error' with the
\* number of items deleted and the failures; the items it deleted are not in
\* the list.
C29_DeleteContinues ==
    \A p \in Callers :
        DeleteDone(p) =>
            /\ delete_attempts[p] = ListedIds(p)
            /\ Val(mem_result[p]).status = "success" <=> Failures(p) = {}
            /\ Val(mem_result[p]).status = "success" =>
                 \A i \in DOMAIN mem_items[p] : ~InList(mem_items[p][i].id)
            /\ Failures(p) # {} =>
                 /\ Val(mem_result[p]).status = "partial_error"
                 /\ Val(mem_result[p]).details = errors_on_delete[p]
            /\ Val(mem_result[p]).count = Len(delete_attempts[p]) - Cardinality(Failures(p))
            /\ \A i \in DOMAIN delete_attempts[p] :
                 i \notin Failures(p) => ~InList(delete_attempts[p][i])

\* a deletion failed, the loop went on and deleted the next item
C29_Witness ==
    \E p \in Callers :
        /\ DeleteDone(p)
        /\ Len(delete_attempts[p]) = 2
        /\ Failures(p) = {1}
        /\ Val(mem_result[p]).status = "partial_error"
        /\ Val(mem_result[p]).count = 1
        /\ Len(memory_list) = 1

\* ---------------------------------------------------------------------------
\* Properties of the /dynamics endpoint
\* ---------------------------------------------------------------------------
Responded == dpc = "responded"
IsErrorEnvelope(code) ==
    IF response = None THEN FALSE
    ELSE Val(response).kind = "error_envelope" /\ Val(response).status_code = code

\* at most one handler is called, and it is the one ACTION_MAP names
OnlyTheMappedHandler ==
    /\ Len(invoked) <= 1
    /\ invoked # <<>> =>
         /\ action_name \in DOMAIN ACTION_MAP
         /\ invoked[1] = ACTION_MAP[action_name]

\* C16 as stated: at most one handler is called per request, the one that
\* ACTION_MAP maps the action name to; for a name that is no key of ACTION_MAP
\* no handler is called and the response is an error envelope with status 400.
C16_UnknownActionIs400 ==
    /\ OnlyTheMappedHandler
    /\ (Responded /\ action_name \notin DOMAIN ACTION_MAP) =>
         (invoked = <<>> /\ IsErrorEnvelope(HTTP_400_BAD_REQUEST))

\* C16 amended: ... for a name that is no key of ACTION_MAP no handler is
\* called and the response is an error envelope, with status 400 if the
\* credential check that precedes the lookup passed and with status 500 if it
\* failed.
C16_UnknownActionIs400AfterCredential ==
    /\ OnlyTheMappedHandler
    /\ (Responded /\ action_name \notin DOMAIN ACTION_MAP) =>
         /\ invoked = <<>>
         /\ IF credential = "ok" THEN IsErrorEnvelope(HTTP_400_BAD_REQUEST)
            ELSE IsErrorEnvelope(HTTP_500_INTERNAL_SERVER_ERROR)

\* the name the endpoint itself tests for, which is no key, was answered 400
C16_Witness ==
    /\ Responded
    /\ action_name = "memory_export_session"
    /\ credential = "ok"
    /\ invoked = <<>>
    /\ IsErrorEnvelope(HTTP_400_BAD_REQUEST)

\* a handler result the endpoint turns into a response other than an error
AcceptedResult(r) ==
    \/ r.t \in {"dict", "bytes"}
    \/ /\ r.t = "str"
       /\ action_name = "memory_export_session"
       /\ params_req.format = Some("csv")

\* C18: every request gets exactly one response; an exception of the handler
\* and a result that is neither dict, bytes nor an accepted CSV string give
\* an error envelope with status 500.
C18_NoFailureEscapes ==
    /\ responses_sent <= 1
    /\ Responded <=> responses_sent = 1
    /\ Responded <=> response # None
    /\ handler_result # None =>
         /\ Responded
         /\ Val(response).kind \in {"error_envelope", "json", "binary", "csv"}
         /\ ~AcceptedResult(Val(handler_result)) =>
              IsErrorEnvelope(HTTP_500_INTERNAL_SERVER_ERROR)

\* the handler raised and the caller got the envelope of the except clause
C18_Witness ==
    /\ Responded
    /\ handler_result = Some(Raises)
    /\ invoked # <<>>
    /\ IsErrorEnvelope(HTTP_500_INTERNAL_SERVER_ERROR)
    /\ Val(response).message = "exception"

\* C20 as stated: sp_memory_export_session requested with format 'csv', the
\* handler returning the CSV text as a str, is answered with that text as
\* text/csv and not with an error.
C20_CsvExportAnswered ==
    (/\ Responded
     /\ action_name = "sp_memory_export_session"
     /\ params_req.format = Some("csv")
     /\ handler_result = Some(Str)) =>
        /\ Val(response).kind = "csv"
        /\ Val(response).media_type = "text/csv"
        /\ Val(response).status_code = HTTP_200_OK

\* the dict the handler returned, where it returned one
IsDict == IF handler_result = None THEN FALSE ELSE Val(handler_result).t = "dict"

\* a dict the endpoint can compare and render: its 'http_status', if present,
\* is an int, its error 'message' is a str and its content is JSON-serialisable
Renderable(r) ==
    /\ r.valid
    /\ IF r.http_status = None THEN TRUE ELSE Val(r.http_status).int

\* the status codes 200..299
InSuccessRange(code) == code \in 200..299

\* C21 as stated: for every dict a handler returns, the response status is in
\* 200..299 exactly if the dict's status is not 'error'.
C21_SuccessIffNotError ==
    IsDict =>
        (InSuccessRange(Val(response).status_code) <=> Val(handler_result).status # "error")

\* C21 amended: an error dict is never answered with a status in 200..299,
\* and an http_status in 200..299 of an error dict is replaced by 500; a
\* non-error dict that the endpoint can compare and render is answered with
\* a status in 200..299, its own http_status if that is one and 200 if not;
\* a non-error dict it cannot compare or render is answered with the 500
\* error envelope.
C21_SuccessIffNotErrorAndRenderable ==
    IsDict =>
        LET r == Val(handler_result)
            code == Val(response).status_code
            given == IF r.http_status = None THEN None
                     ELSE IF Val(r.http_status).int THEN Some(Val(r.http_status).v)
                     ELSE None
        IN /\ r.status = "error" =>
                /\ ~InSuccessRange(code)
                /\ Val(response).kind = "error_envelope"
                /\ (IF given = None THEN FALSE ELSE InSuccessRange(Val(given))) =>
                      code = HTTP_500_INTERNAL_SERVER_ERROR
                /\ (Renderable(r) /\ (IF given = None THEN FALSE ELSE ~InSuccessRange(Val(given)))) =>
                      code = Val(given)
           /\ (r.status # "error" /\ Renderable(r)) =>
                /\ Val(response).kind = "json"
                /\ InSuccessRange(code)
                /\ code = (IF given = None THEN HTTP_200_OK
                           ELSE IF InSuccessRange(Val(given)) THEN Val(given) ELSE HTTP_200_OK)
           /\ (r.status # "error" /\ ~Renderable(r)) =>
                IsErrorEnvelope(HTTP_500_INTERNAL_SERVER_ERROR)

\* a 'partial_error' dict with an http_status outside 200..299 was sent as 200
C21_Witness ==
    /\ Responded
    /\ IsDict
    /\ Val(handler_result).status = "partial_error"
    /\ Val(handler_result).http_status = Some([int |-> TRUE, v |-> 404])
    /\ Val(handler_result).valid
    /\ Val(response).kind = "json"
    /\ Val(response).status_code = HTTP_200_OK

\* ---------------------------------------------------------------------------
\* Properties of AuthenticatedHttpClient.request
\* ---------------------------------------------------------------------------
Called == cpc \in {"awaiting", "done"}

\* C17: a request is sent upstream only with a non-empty token obtained for
\* the scope of this call, carried as Bearer authorization; with an empty
\* scope or without a token the call raises ValueError and sends nothing.
C17_TokenBeforeRequest ==
    /\ upstream_requests > 0 <=> sent # None
    /\ sent # None =>
         /\ scope # <<>>
         /\ TokenTruthy(access_token)
         /\ Val(access_token).for = scope
         /\ Val(sent).headers.Authorization = Bearer(Val(access_token))
    /\ (Called /\ ~TokenTruthy(access_token)) =>
         /\ cpc = "done"
         /\ outcome = Some(RaisesError(TokenValueError))
         /\ sent = None
         /\ upstream_requests = 0

\* a request was sent although the caller had passed its own Authorization header
C17_Witness ==
    /\ sent # None
    /\ kwargs.headers.Authorization = Some("caller")
    /\ Val(sent).headers.Authorization = Bearer(Token(scope, "secret"))
    /\ upstream_requests = 1

\* C19 as stated: a call with the payload passed as json_data= sends the
\* request with the payload as JSON body and with Content-Type
\* application/json unless the caller set one; it does not fail before the
\* request is sent.
C19_JsonDataIsSent ==
    (/\ Called
     /\ kwargs.body = "json_data"
     /\ kwargs.headers.given # "None"
     /\ TokenTruthy(access_token)) =>
        /\ sent # None
        /\ Val(sent).body = "json"
        /\ Val(sent).headers.ContentType =
             (IF kwargs.headers.ContentType = None THEN Some("application/json")
              ELSE kwargs.headers.ContentType)

====
